---------------------------- MODULE Spec2Model ----------------------------
(***************************************************************************)
(* The vote ledger and reputation adjuster of the django_forum project:    *)
(* core/repositories.py (the three vote repositories), core/mixins.py      *)
(* (VoteableMixin.vote and its reputation hand-off), core/calculators.py   *)
(* (BasicReputationCalculator) and core/services.py (ReputationService).   *)
(*                                                                         *)
(* The same sequence of calls is run against three worlds at once, one per *)
(* repository class (DjangoVoteRepository, MemoryVoteRepository,           *)
(* CachedVoteRepository), so that the worlds can be compared state by      *)
(* state.                                                                  *)
(*                                                                         *)
(* Specifications: Spec (sequential vote calls in the three worlds),       *)
(* CacheSpec (the caching repository: votes, reads, expiring entries),     *)
(* CacheRaceSpec (a read through the cache interleaved with a vote),       *)
(* RaceSpec (two vote calls interleaved on the persistent repository),     *)
(* CalcSpec (the reputation calculator and _handle_reputation),            *)
(* AuthorlessSpec (vote calls on targets without an author), ViewSpec      *)
(* (votes/views.py, the vote view), RepoSpec (one repository object of     *)
(* each kind serving every target, with delete_vote), RelatedSpec (votes   *)
(* on an answer to another user's question), AcceptSpec (forum/views.py,   *)
(* two accept_answer requests interleaved) and MemorySpec (two             *)
(* MemoryVoteRepository objects and the class method reset).               *)
(***************************************************************************)
EXTENDS Integers, Sequences, FiniteSets, Bags, TLC

VARIABLES
    dbVotes,     \* [DbBackends -> bag of Vote rows]: the votes_vote table
    memVotes,    \* [Targets -> Seq(dict)]: MemoryVoteRepository().votes of each target instance (MemorySpec: of each list of the class)
    cache,       \* django.core.cache contents: partial function key -> value
    reputation,  \* [Backends -> [Users -> Int]]: profile.reputation_points as stored
    profile,     \* [Backends -> [Targets -> record]]: the target instance's cached author.profile
    last,        \* the last call (vote, request, process_vote, delete_vote) and what it returned
    calls,       \* the calls in flight when calls run concurrently: position and locals of each
    calc,        \* the last BasicReputationCalculator.calculate call and its value
    answers      \* [answer pk -> BOOLEAN]: is_accepted of the forum_answer rows

vars == <<dbVotes, memVotes, cache, reputation, profile, last, calls, calc,
          answers>>

-----------------------------------------------------------------------------
(* Python values *)

None == "None"

VoteTypes == {"up", "down"}

(* The users of the test fixtures; user.pk identifies a user. *)
Users == {"u1", "u2", "u3"}

(* django.contrib.auth AnonymousUser: a user object with is_authenticated False *)
AnonymousUser == "AnonymousUser"

Actors == Users \cup {None, AnonymousUser}

IsAuthenticated(user) == user \in Users

(* Target instances: a Question and an Answer with the same numeric id,    *)
(* both written by u1.                                                     *)
Question1 == [cls |-> "Question", pk |-> 1, author |-> "u1"]

Answer1 == [cls |-> "Answer", pk |-> 1, author |-> "u1"]

Targets == {Question1, Answer1}

HasAuthor(obj) == "author" \in DOMAIN obj

Backends == {"django", "memory", "cached"}

(* The forum_answer rows: two answers to question 1 and one to question 2, *)
(* and the authors of the questions                                        *)
AnswerRows ==
    (1 :> [question |-> 1, author |-> "u2"]) @@
    (2 :> [question |-> 1, author |-> "u3"]) @@
    (3 :> [question |-> 2, author |-> "u1"])

QuestionAuthor == (1 :> "u1") @@ (2 :> "u2")

(* No answer is accepted *)
NoneAccepted == [pk \in DOMAIN AnswerRows |-> FALSE]

DbBackends == {"django", "cached"}

(* repositories.get_user_id: user.pk *)
get_user_id(user) == user

-----------------------------------------------------------------------------
(* core/rep_rules.py *)

REPUTATION_RULES ==
    ("question_upvote" :> 10) @@ ("question_downvote" :> -2) @@
    ("answer_upvote" :> 10) @@ ("answer_accepted" :> 15) @@
    ("review_upvote" :> 5)

(* A lookup that answers 1 for a key the table does not have (the variant  *)
(* C19 is checked against)                                                 *)
RulesGet_DefaultOne(key, default) ==
    IF key \in DOMAIN REPUTATION_RULES THEN REPUTATION_RULES[key] ELSE 1

(* dict.get(key, default) *)
RulesGet(key, default) ==
    IF key \in DOMAIN REPUTATION_RULES THEN REPUTATION_RULES[key] ELSE default

(* str.lower() of the class names in use *)
Lower(name) ==
    CASE name = "Question" -> "question"
      [] name = "Answer" -> "answer"
      [] name = "CourseReview" -> "coursereview"
      [] OTHER -> name

(* "upvote" if vote_type == "up" else "downvote" *)
Suffix(vote_type) == IF vote_type = "up" THEN "upvote" ELSE "downvote"

(* calculate that looks up the rule of a removed vote without negating it  *)
(* (the variant C17 is checked against)                                    *)
Calculate_RemovedNotNegated(model_name, vote_type, removed, new_vote_type) ==
    LET name == IF model_name = "coursereview" THEN "review" ELSE model_name
    IN  IF removed # TRUE /\ new_vote_type # None
        THEN RulesGet(name \o "_" \o Suffix(new_vote_type), 0)
                - RulesGet(name \o "_" \o Suffix(vote_type), 0)
        ELSE RulesGet(name \o "_" \o Suffix(vote_type), 0)

(* calculate that returns the points of the new type on a change (the      *)
(* variant C18 is checked against)                                         *)
Calculate_NewPointsOnly(model_name, vote_type, removed, new_vote_type) ==
    LET name == IF model_name = "coursereview" THEN "review" ELSE model_name
    IN  IF removed = TRUE
        THEN 0 - RulesGet(name \o "_" \o Suffix(vote_type), 0)
        ELSE IF new_vote_type # None
        THEN RulesGet(name \o "_" \o Suffix(new_vote_type), 0)
        ELSE RulesGet(name \o "_" \o Suffix(vote_type), 0)

(* calculate without the normalisation of "coursereview" (the variant C20  *)
(* is checked against)                                                     *)
Calculate_NoAlias(model_name, vote_type, removed, new_vote_type) ==
    IF removed = TRUE
    THEN 0 - RulesGet(model_name \o "_" \o Suffix(vote_type), 0)
    ELSE IF new_vote_type # None
    THEN RulesGet(model_name \o "_" \o Suffix(new_vote_type), 0)
            - RulesGet(model_name \o "_" \o Suffix(vote_type), 0)
    ELSE RulesGet(model_name \o "_" \o Suffix(vote_type), 0)

(* BasicReputationCalculator.calculate(model_name, vote_type, **kwargs);   *)
(* removed and new_vote_type are kwargs.get("removed") and                 *)
(* kwargs.get("new_vote_type"), None when the keyword is not passed.       *)
Calculate(model_name, vote_type, removed, new_vote_type) ==
    LET name == IF model_name = "coursereview" THEN "review" ELSE model_name
        reputation_key == name \o "_" \o Suffix(vote_type)
    IN  IF removed = TRUE
        THEN 0 - RulesGet(reputation_key, 0)
        ELSE IF new_vote_type # None /\ new_vote_type # ""
             THEN LET old_points == RulesGet(name \o "_" \o Suffix(vote_type), 0)
                      new_points == RulesGet(name \o "_" \o Suffix(new_vote_type), 0)
                  IN  new_points - old_points
             ELSE RulesGet(reputation_key, 0)

-----------------------------------------------------------------------------
(* votes.models.Vote and its manager *)

VoteRow(user, obj, vote_type) ==
    [type |-> "Vote", user |-> user, content_type |-> obj.cls,
     object_id |-> obj.pk, vote_type |-> vote_type]

(* getattr(v, 'vote_type', None): a Vote instance has the attribute, a     *)
(* dict has the key but not the attribute.                                 *)
GetAttrVoteType(v) == IF v.type = "Vote" THEN v.vote_type ELSE None

(* list(queryset): the rows of a bag in some fixed order *)
RECURSIVE BagToSeq(_)
BagToSeq(B) ==
    IF BagToSet(B) = {}
    THEN << >>
    ELSE LET e == CHOOSE x \in BagToSet(B) : TRUE
         IN  <<e>> \o BagToSeq(B (-) SetToBag({e}))

(* Vote.objects.filter(content_type=content_type, object_id=obj.pk) *)
VoteObjectsFilter(rows, obj) ==
    LET S == {r \in BagToSet(rows) :
                 r.content_type = obj.cls /\ r.object_id = obj.pk}
    IN  [r \in S |-> rows[r]]

(* Vote.objects.get(user=user, content_type=content_type, object_id=obj.pk) *)
VoteObjectsGet(rows, obj, user) ==
    LET S == {r \in BagToSet(rows) :
                 r.user = user /\ r.content_type = obj.cls /\ r.object_id = obj.pk}
        n == BagCardinality([r \in S |-> rows[r]])
    IN  IF n = 0 THEN [status |-> "DoesNotExist", vote |-> None]
        ELSE IF n = 1 THEN [status |-> "ok", vote |-> CHOOSE r \in S : TRUE]
        ELSE [status |-> "MultipleObjectsReturned", vote |-> None]

(* Vote.objects.create(...) under unique_together (user, content_type,     *)
(* object_id): a second row for the same triple raises IntegrityError.     *)
VoteObjectsCreate(rows, row) ==
    IF \E r \in BagToSet(rows) :
           r.user = row.user /\ r.content_type = row.content_type
           /\ r.object_id = row.object_id
    THEN [status |-> "IntegrityError", rows |-> rows]
    ELSE [status |-> "ok", rows |-> rows (+) SetToBag({row})]

-----------------------------------------------------------------------------
(* DjangoVoteRepository *)

DjangoGetVotesForObject(rows, obj) == BagToSeq(VoteObjectsFilter(rows, obj))

DjangoGetUserVote(rows, obj, user) ==
    IF user = None \/ ~IsAuthenticated(user)
    THEN None
    ELSE LET got == VoteObjectsGet(rows, obj, user)
         IN  IF got.status = "ok" THEN got.vote.vote_type
             ELSE IF got.status = "DoesNotExist" THEN None
             ELSE got.status

(* DjangoVoteRepository.vote without the lookup: every call inserts a row  *)
(* (the variant C1 is checked against)                                     *)
DjangoVote_AlwaysInsert(rows, obj, user, vote_type) ==
    [result |-> "added",
     rows |-> rows (+) SetToBag({VoteRow(user, obj, vote_type)})]

(* DjangoVoteRepository.vote: [result, rows]; an exception that leaves     *)
(* the method is reported as the result.                                   *)
DjangoVote(rows, obj, user, vote_type) ==
    LET got == VoteObjectsGet(rows, obj, user)
    IN  IF got.status = "ok"
        THEN IF got.vote.vote_type = vote_type
             THEN [result |-> "removed",
                   rows |-> rows (-) SetToBag({got.vote})]
             ELSE [result |-> "updated",
                   rows |-> (rows (-) SetToBag({got.vote}))
                            (+) SetToBag({[got.vote EXCEPT !.vote_type = vote_type]})]
        ELSE IF got.status = "DoesNotExist"
        THEN LET made == VoteObjectsCreate(rows, VoteRow(user, obj, vote_type))
             IN  IF made.status = "ok"
                 THEN [result |-> "added", rows |-> made.rows]
                 ELSE [result |-> made.status, rows |-> rows]
        ELSE [result |-> got.status, rows |-> rows]

-----------------------------------------------------------------------------
(* MemoryVoteRepository *)

VoteDict(user, obj, vote_type) ==
    [type |-> "dict", user_id |-> get_user_id(user), object_id |-> obj.pk,
     vote_type |-> vote_type]

MemoryMatches(v, obj, user) ==
    v.object_id = obj.pk /\ v.user_id = get_user_id(user)

MemoryGetVotesForObject(votes, obj) ==
    SelectSeq(votes, LAMBDA v : v.object_id = obj.pk)

(* get_user_vote that returns the first vote on the object, whoever cast  *)
(* it (the variant C16 is checked against)                                 *)
MemoryGetUserVote_AnyUser(votes, obj, user) ==
    IF user = None \/ ~IsAuthenticated(user)
    THEN None
    ELSE LET I == {i \in 1..Len(votes) : votes[i].object_id = obj.pk}
         IN  IF I = {} THEN None
             ELSE votes[CHOOSE i \in I : \A j \in I : i <= j].vote_type

(* not user or not getattr(user, 'is_authenticated', True) *)
MemoryGetUserVote(votes, obj, user) ==
    IF user = None \/ ~IsAuthenticated(user)
    THEN None
    ELSE LET I == {i \in 1..Len(votes) : MemoryMatches(votes[i], obj, user)}
         IN  IF I = {} THEN None
             ELSE votes[CHOOSE i \in I : \A j \in I : i <= j].vote_type

(* list.pop(i) *)
Pop(s, i) == SubSeq(s, 1, i - 1) \o SubSeq(s, i + 1, Len(s))

(* MemoryVoteRepository.vote without the toggle-off branch: an existing    *)
(* vote is always overwritten (the variant C2 is checked against)          *)
MemoryVote_NoToggle(votes, obj, user, vote_type) ==
    LET I == {i \in 1..Len(votes) : MemoryMatches(votes[i], obj, user)}
    IN  IF I # {}
        THEN LET vote_idx == CHOOSE i \in I : \A j \in I : i <= j
             IN  [result |-> "updated",
                  votes |-> [votes EXCEPT ![vote_idx].vote_type = vote_type]]
        ELSE [result |-> "added",
              votes |-> Append(votes, VoteDict(user, obj, vote_type))]

MemoryVote(votes, obj, user, vote_type) ==
    LET I == {i \in 1..Len(votes) : MemoryMatches(votes[i], obj, user)}
    IN  IF I # {}
        THEN LET vote_idx == CHOOSE i \in I : \A j \in I : i <= j
             IN  IF votes[vote_idx].vote_type = vote_type
                 THEN [result |-> "removed", votes |-> Pop(votes, vote_idx)]
                 ELSE [result |-> "updated",
                       votes |-> [votes EXCEPT ![vote_idx].vote_type = vote_type]]
        ELSE [result |-> "added",
              votes |-> Append(votes, VoteDict(user, obj, vote_type))]

-----------------------------------------------------------------------------
(* CachedVoteRepository over django.core.cache *)

(* str(pk) of the ids in use *)
Str(n) == ToString(n)

(* f"{CACHE_PREFIX}:{obj.__class__.__name__}:{obj.pk}:{suffix}" *)
CacheKeyOf(obj, suffix) ==
    "votes" \o ":" \o obj.cls \o ":" \o Str(obj.pk) \o ":" \o suffix

AllKey(obj) == CacheKeyOf(obj, "all")

UserKey(obj, user) == CacheKeyOf(obj, "user:" \o user)

(* cache.set(key, value, ttl) *)
CacheSet(c, key, value) == (key :> value) @@ c

(* cache.delete_many(keys) *)
CacheDeleteMany(c, keys) == [k \in (DOMAIN c) \ keys |-> c[k]]

(* CachedVoteRepository.get_votes_for_object: [value, cache] *)
CachedGetVotesForObject(rows, c, obj) ==
    LET cache_key == AllKey(obj)
    IN  IF cache_key \in DOMAIN c
        THEN [value |-> c[cache_key], cache |-> c]
        ELSE LET votes == DjangoGetVotesForObject(rows, obj)
             IN  [value |-> votes, cache |-> CacheSet(c, cache_key, votes)]

(* CachedVoteRepository.get_user_vote: [value, cache]; a stored None reads *)
(* like a missing key.                                                     *)
CachedGetUserVote(rows, c, obj, user) ==
    IF user = None \/ ~IsAuthenticated(user)
    THEN [value |-> None, cache |-> c]
    ELSE LET cache_key == UserKey(obj, user)
         IN  IF cache_key \in DOMAIN c /\ c[cache_key] # None
             THEN [value |-> c[cache_key], cache |-> c]
             ELSE LET vote_type == DjangoGetUserVote(rows, obj, user)
                  IN  [value |-> vote_type,
                       cache |-> CacheSet(c, cache_key, vote_type)]

(* _invalidate_cache that deletes the list entry only (the variant C10 is  *)
(* checked against)                                                        *)
InvalidateCache_ListOnly(c, obj, user) == CacheDeleteMany(c, {AllKey(obj)})

(* CachedVoteRepository._invalidate_cache *)
InvalidateCache(c, obj, user) ==
    CacheDeleteMany(c, {AllKey(obj), UserKey(obj, user)})

(* CachedVoteRepository.vote: [result, rows, cache]; when the store raises *)
(* the invalidation is not reached.                                        *)
CachedVote(rows, c, obj, user, vote_type) ==
    LET r == DjangoVote(rows, obj, user, vote_type)
    IN  IF r.result \in {"added", "updated", "removed"}
        THEN [result |-> r.result, rows |-> r.rows,
              cache |-> InvalidateCache(c, obj, user)]
        ELSE [result |-> r.result, rows |-> r.rows, cache |-> c]

-----------------------------------------------------------------------------
(* The repository of a target instance in each world                       *)
(* (VoteableMixin._create_vote_repository, one repository per instance)    *)

(* self._vote_repository.get_user_vote(self, user): [value, cache] *)
RepoGetUserVote(b, obj, user) ==
    CASE b = "django" ->
            [value |-> DjangoGetUserVote(dbVotes[b], obj, user), cache |-> cache]
      [] b = "memory" ->
            [value |-> MemoryGetUserVote(memVotes[obj], obj, user), cache |-> cache]
      [] b = "cached" -> CachedGetUserVote(dbVotes[b], cache, obj, user)

(* self._vote_repository.get_votes_for_object(self): [value, cache] *)
RepoGetVotesForObject(b, obj) ==
    CASE b = "django" ->
            [value |-> DjangoGetVotesForObject(dbVotes[b], obj), cache |-> cache]
      [] b = "memory" ->
            [value |-> MemoryGetVotesForObject(memVotes[obj], obj), cache |-> cache]
      [] b = "cached" -> CachedGetVotesForObject(dbVotes[b], cache, obj)

(* self._vote_repository.vote(self, user, vote_type) with the cache as     *)
(* get_user_vote left it: [result, store, cache]                           *)
RepoVote(b, c, obj, user, vote_type) ==
    CASE b = "django" ->
            LET r == DjangoVote(dbVotes[b], obj, user, vote_type)
            IN  [result |-> r.result, store |-> r.rows, cache |-> c]
      [] b = "memory" ->
            LET r == MemoryVote(memVotes[obj], obj, user, vote_type)
            IN  [result |-> r.result, store |-> r.votes, cache |-> c]
      [] b = "cached" ->
            LET r == CachedVote(dbVotes[b], c, obj, user, vote_type)
            IN  [result |-> r.result, store |-> r.rows, cache |-> r.cache]

(* The store of world b as the target instance obj sees it *)
Store(b, obj) == IF b = "memory" THEN memVotes[obj] ELSE dbVotes[b]

-----------------------------------------------------------------------------
(* BaseVoteRepository (core/repositories.py): the derived reads *)

get_upvotes(votes) == SelectSeq(votes, LAMBDA v : GetAttrVoteType(v) = "up")

get_downvotes(votes) == SelectSeq(votes, LAMBDA v : GetAttrVoteType(v) = "down")

get_vote_count(votes) == Len(votes)

(* get_vote_score that counts the upvotes only (the variant C8 is checked  *)
(* against)                                                                *)
get_vote_score_UpvotesOnly(votes) == Len(get_upvotes(votes))

get_vote_score(votes) == Len(get_upvotes(votes)) - Len(get_downvotes(votes))

-----------------------------------------------------------------------------
(* ReputationService and the reputation hand-off of VoteableMixin *)

(* VoteableMixin._handle_reputation: the points it computes *)
HandleReputationPoints(obj, result, old_vote_type, new_vote_type) ==
    LET model_name == Lower(obj.cls)
    IN  IF result = "removed"
        THEN Calculate(model_name, old_vote_type, TRUE, None)
        ELSE IF result = "updated"
        THEN Calculate(model_name, old_vote_type, FALSE, new_vote_type)
        ELSE Calculate(model_name, new_vote_type, FALSE, None)

(* self.author.profile: the instance's cached profile object, read from    *)
(* the profile row the first time it is used                               *)
AuthorProfile(rep, prof, obj) ==
    IF prof[obj].loaded THEN prof[obj].reputation_points ELSE rep[obj.author]

(* apply_reputation_change that saves the profile whatever the points are  *)
(* (the variant C21 is checked against)                                    *)
ApplyReputationChange_SavesOnZero(rep, prof, obj, points) ==
    LET new_points == (IF prof[obj].loaded THEN prof[obj].reputation_points
                       ELSE rep[obj.author]) + points
    IN  [raised |-> FALSE,
         reputation |-> [rep EXCEPT ![obj.author] = new_points],
         profile |-> [prof EXCEPT ![obj] =
                         [loaded |-> TRUE, reputation_points |-> new_points]]]

(* VoteableMixin._apply_reputation_change and                              *)
(* ReputationService.apply_reputation_change: reputation_points += points  *)
(* on the instance's profile object, then profile.save(). The argument     *)
(* self.author.profile is evaluated first: with author = None it raises    *)
(* AttributeError.                                                         *)
ApplyReputationChange(rep, prof, obj, points) ==
    IF HasAuthor(obj) /\ points # 0
    THEN IF obj.author = None
         THEN [raised |-> TRUE, reputation |-> rep, profile |-> prof]
         ELSE LET new_points == AuthorProfile(rep, prof, obj) + points
              IN  [raised |-> FALSE,
                   reputation |-> [rep EXCEPT ![obj.author] = new_points],
                   profile |-> [prof EXCEPT ![obj] =
                                   [loaded |-> TRUE,
                                    reputation_points |-> new_points]]]
    ELSE [raised |-> FALSE, reputation |-> rep, profile |-> prof]

-----------------------------------------------------------------------------
(* VoteableMixin.vote in world b: what it returns and the state it leaves  *)

Unchanged(b, obj, result) ==
    [result |-> result, old_vote_type |-> None, store |-> Store(b, obj),
     cache |-> cache, reputation |-> reputation[b], profile |-> profile[b]]

(* VoteableMixin.vote after its two guards: read the old vote, vote        *)
(* through the repository, hand the transition to the reputation code. An  *)
(* exception of the reputation code leaves vote() after the repository     *)
(* has written.                                                            *)
VoteThroughRepository(b, obj, user, vote_type) ==
    LET old == RepoGetUserVote(b, obj, user)
        r == RepoVote(b, old.cache, obj, user, vote_type)
        raised == r.result \notin {"added", "updated", "removed"}
        rep == IF ~raised /\ HasAuthor(obj) /\ obj.author # user
               THEN ApplyReputationChange(reputation[b], profile[b], obj,
                       HandleReputationPoints(obj, r.result, old.value, vote_type))
               ELSE [raised |-> FALSE, reputation |-> reputation[b],
                     profile |-> profile[b]]
    IN  [result |-> IF rep.raised THEN "AttributeError" ELSE r.result,
         old_vote_type |-> old.value, store |-> r.store,
         cache |-> r.cache, reputation |-> rep.reputation,
         profile |-> rep.profile]

(* VoteableMixin.vote without the self-vote guard (the variant C5 is       *)
(* checked against)                                                        *)
VoteableVote_NoSelfVoteGuard(b, obj, user, vote_type) ==
    IF user = None \/ ~IsAuthenticated(user)
    THEN Unchanged(b, obj, "unauthorized")
    ELSE VoteThroughRepository(b, obj, user, vote_type)

(* VoteableMixin.vote that only rejects a missing user, not an             *)
(* unauthenticated one (the variant C6 is checked against)                 *)
VoteableVote_NoneOnly(b, obj, user, vote_type) ==
    IF user = None
    THEN Unchanged(b, obj, "unauthorized")
    ELSE IF HasAuthor(obj) /\ obj.author = user
    THEN Unchanged(b, obj, "self_vote")
    ELSE VoteThroughRepository(b, obj, user, vote_type)

VoteableVote(b, obj, user, vote_type) ==
    IF user = None \/ ~IsAuthenticated(user)
    THEN Unchanged(b, obj, "unauthorized")
    ELSE IF HasAuthor(obj) /\ obj.author = user
    THEN Unchanged(b, obj, "self_vote")
    ELSE VoteThroughRepository(b, obj, user, vote_type)

-----------------------------------------------------------------------------
(* The state machine *)

(* What a caller reads just before a call: obj.get_user_vote(user),        *)
(* obj.get_vote_score() and the stored reputation of the author (0 stands  *)
(* for "no author to read"). Kept in `last` as history, so that a call can *)
(* be compared with the state two calls back.                              *)
Observed(obj, user) ==
    [user_vote |-> [b \in Backends |-> RepoGetUserVote(b, obj, user).value],
     score |-> [b \in Backends |->
                   get_vote_score(RepoGetVotesForObject(b, obj).value)],
     reputation |-> [b \in Backends |->
                        IF HasAuthor(obj) /\ obj.author \in Users
                        THEN reputation[b][obj.author] ELSE 0]]

NoCall ==
    [op |-> "none", obj |-> Question1, user |-> None, vote_type |-> "up",
     result |-> [b \in Backends |-> "none"],
     old_vote_type |-> [b \in Backends |-> None],
     pre |-> [user_vote |-> [b \in Backends |-> None],
              score |-> [b \in Backends |-> 0],
              reputation |-> [b \in Backends |-> 0]]]

(* No call in flight; no calculator call made *)
NoCalls == << >>

NoCalc == [via |-> "none", model_name |-> "none", vote_type |-> "up",
           removed |-> FALSE, new_vote_type |-> None, points |-> 0]

Init ==
    /\ calls = NoCalls
    /\ calc = NoCalc
    /\ dbVotes = [b \in DbBackends |-> EmptyBag]
    /\ memVotes = [t \in Targets |-> << >>]
    /\ cache = << >>
    /\ reputation = [b \in Backends |-> [u \in Users |-> 0]]
    /\ profile = [b \in Backends |->
                    [t \in Targets |-> [loaded |-> FALSE, reputation_points |-> 0]]]
    /\ last = NoCall
    /\ answers = NoneAccepted

(* obj.vote(user, vote_type), the same call in every world *)
CastVote(obj, user, vote_type) ==
    \E out \in {[b \in Backends |-> VoteableVote(b, obj, user, vote_type)]} :
        /\ dbVotes' = [b \in DbBackends |-> out[b].store]
        /\ memVotes' = [memVotes EXCEPT ![obj] = out["memory"].store]
        /\ cache' = out["cached"].cache
        /\ reputation' = [b \in Backends |-> out[b].reputation]
        /\ profile' = [b \in Backends |-> out[b].profile]
        /\ last' = [op |-> "vote", obj |-> obj, user |-> user,
                    vote_type |-> vote_type,
                    result |-> [b \in Backends |-> out[b].result],
                    old_vote_type |-> [b \in Backends |-> out[b].old_vote_type],
                    pre |-> Observed(obj, user)]
        /\ UNCHANGED <<answers, calls, calc>>

Next ==
    \E obj \in Targets, user \in Actors, vote_type \in VoteTypes :
        CastVote(obj, user, vote_type)

Spec == Init /\ [][Next]_vars

-----------------------------------------------------------------------------
(* The caching repository on its own: votes through VoteManager, reads,    *)
(* and entries running out                                                 *)

(* The users who vote on and read the targets of u1 *)
Voters == Users \ {"u1"}

(* VoteManager(CachedVoteRepository()).process_vote(obj, user, vote_type) *)
ProcessVote(obj, user, vote_type) ==
    LET r == CachedVote(dbVotes["cached"], cache, obj, user, vote_type)
    IN  /\ dbVotes' = [dbVotes EXCEPT !["cached"] = r.rows]
        /\ cache' = r.cache
        /\ UNCHANGED <<answers, memVotes, reputation, profile, last, calls, calc>>

(* get_votes_for_object(obj) of the caching repository: fills the list     *)
(* entry                                                                   *)
GetVotes(obj) ==
    /\ cache' = CachedGetVotesForObject(dbVotes["cached"], cache, obj).cache
    /\ UNCHANGED <<answers, dbVotes, memVotes, reputation, profile, last, calls, calc>>

(* get_user_vote(obj, user) of the caching repository: fills the (target,  *)
(* user) entry                                                             *)
GetUserVote(obj, user) ==
    /\ cache' = CachedGetUserVote(dbVotes["cached"], cache, obj, user).cache
    /\ UNCHANGED <<answers, dbVotes, memVotes, reputation, profile, last, calls, calc>>

(* An entry set with CACHE_TTL runs out *)
Expire(key) ==
    /\ key \in DOMAIN cache
    /\ cache' = CacheDeleteMany(cache, {key})
    /\ UNCHANGED <<answers, dbVotes, memVotes, reputation, profile, last, calls, calc>>

CacheNext ==
    \/ \E obj \in Targets, user \in Voters, vote_type \in VoteTypes :
           ProcessVote(obj, user, vote_type)
    \/ \E obj \in Targets : GetVotes(obj)
    \/ \E obj \in Targets, user \in Voters \cup {None, AnonymousUser} :
           GetUserVote(obj, user)
    \/ \E key \in DOMAIN cache : Expire(key)

CacheSpec == Init /\ [][CacheNext]_vars

-----------------------------------------------------------------------------
(* The vocabulary of the properties: the records a store holds, read off   *)
(* the store itself                                                        *)

(* The number of records the stores db, mem hold in world b for           *)
(* (user, obj) with vote_type in VT                                        *)
PairCountIn(db, mem, b, obj, user, VT) ==
    IF b = "memory"
    THEN Cardinality({i \in 1..Len(mem[obj]) :
            /\ mem[obj][i].object_id = obj.pk
            /\ mem[obj][i].user_id = user
            /\ mem[obj][i].vote_type \in VT})
    ELSE LET S == {r \in BagToSet(db[b]) :
                     /\ r.content_type = obj.cls /\ r.object_id = obj.pk
                     /\ r.user = user /\ r.vote_type \in VT}
         IN  BagCardinality([r \in S |-> db[b][r]])

PairCount(b, obj, user, VT) == PairCountIn(dbVotes, memVotes, b, obj, user, VT)

(* The same after the step *)
PairCountAfter(b, obj, user, VT) ==
    PairCountIn(dbVotes', memVotes', b, obj, user, VT)

AnyType == VoteTypes \cup {None}

PairTotal(b, obj, user) == PairCount(b, obj, user, AnyType)

PairTotalAfter(b, obj, user) == PairCountAfter(b, obj, user, AnyType)

(* The polarity (user, obj) holds in world b, None when it holds no vote *)
Held(b, obj, user) ==
    IF PairCount(b, obj, user, {"up"}) > 0 THEN "up"
    ELSE IF PairCount(b, obj, user, {"down"}) > 0 THEN "down"
    ELSE None

Other(vote_type) == IF vote_type = "up" THEN "down" ELSE "up"

(* The step is a vote call of an authenticated user who is not the author *)
OrdinaryVoteStep ==
    /\ last'.op = "vote"
    /\ IsAuthenticated(last'.user)
    /\ last'.user # last'.obj.author

Transitions == {"added", "updated", "removed"}

-----------------------------------------------------------------------------
(* C1: in every reachable state, in each of the three worlds, the store    *)
(* holds at most one vote record for every (user, target) pair.            *)
C1_AtMostOneVotePerPair ==
    \A b \in Backends, obj \in Targets, user \in Actors :
        PairTotal(b, obj, user) <= 1

(* Two users hold a vote on the same target and one of them has just       *)
(* changed its polarity.                                                   *)
C1_Witness ==
    /\ last.op = "vote"
    /\ \A b \in Backends : last.result[b] = "updated"
    /\ \A b \in Backends :
          \A user \in Voters : PairTotal(b, last.obj, user) = 1

(* C2: a vote call of an authenticated non-author follows the transition   *)
(* table in every world: no vote held -> a record with the requested       *)
(* polarity is inserted, `added`; the requested polarity held -> the       *)
(* record is deleted, `removed`; the other polarity held -> the record's   *)
(* polarity is changed in place, `updated`. The records of every other     *)
(* (user, target) pair stay as they are.                                   *)
C2_TableStep(b) ==
    LET obj == last'.obj
        user == last'.user
        P == last'.vote_type
        res == last'.result[b]
    IN  /\ Held(b, obj, user) = None =>
              /\ res = "added"
              /\ PairCountAfter(b, obj, user, {P}) = 1
              /\ PairTotalAfter(b, obj, user) = 1
        /\ Held(b, obj, user) = P =>
              /\ res = "removed"
              /\ PairTotalAfter(b, obj, user) = 0
        /\ Held(b, obj, user) = Other(P) =>
              /\ res = "updated"
              /\ PairCountAfter(b, obj, user, {P}) = 1
              /\ PairTotalAfter(b, obj, user) = 1
              /\ Len(memVotes'[obj]) = Len(memVotes[obj])
              /\ \A i \in 1..Len(memVotes[obj]) :
                    memVotes'[obj][i].user_id = memVotes[obj][i].user_id
        /\ res \in Transitions
        /\ \A obj2 \in Targets, user2 \in Actors, vt \in VoteTypes :
              (obj2 # obj \/ user2 # user) =>
                  PairCountAfter(b, obj2, user2, {vt}) = PairCount(b, obj2, user2, {vt})

C2_TransitionTable ==
    [][OrdinaryVoteStep => \A b \in Backends : C2_TableStep(b)]_vars

(* Each of the three kinds has been reported: a vote was removed while     *)
(* another user's vote on the same target stays recorded.                  *)
C2_Witness ==
    /\ last.op = "vote"
    /\ \A b \in Backends : last.result[b] = "removed"
    /\ \E user \in Voters : \A b \in Backends : Held(b, last.obj, user) = "down"

-----------------------------------------------------------------------------
(* The rule table as the properties read it: the points of one vote of     *)
(* polarity vt on a target of obj's category, 0 when the table has no      *)
(* entry                                                                   *)
Rule(obj, vt) ==
    LET category == IF obj.cls = "CourseReview" THEN "review" ELSE Lower(obj.cls)
        key == category \o "_" \o vt \o "vote"
    IN  IF key \in DOMAIN REPUTATION_RULES THEN REPUTATION_RULES[key] ELSE 0

(* The delta of the state machine for a step of kind res that asked for P  *)
(* while the pair held `held`                                              *)
MachineDelta(obj, res, held, P) ==
    CASE res = "added" -> Rule(obj, P)
      [] res = "removed" -> 0 - Rule(obj, held)
      [] res = "updated" -> Rule(obj, P) - Rule(obj, held)
      [] OTHER -> 0

(* C3: every vote step of an authenticated non-author changes the stored   *)
(* reputation of the target's author by exactly the delta of the state     *)
(* machine, computed with the polarity the pair held before the call, and  *)
(* changes no other user's reputation.                                     *)
C3_DeltaPerTransition ==
    [][OrdinaryVoteStep =>
          \A b \in Backends :
              LET obj == last'.obj
                  held == Held(b, obj, last'.user)
              IN  /\ last'.old_vote_type[b] = held
                  /\ reputation'[b][obj.author] =
                        reputation[b][obj.author]
                        + MachineDelta(obj, last'.result[b], held, last'.vote_type)
                  /\ \A u \in Users \ {obj.author} :
                        reputation'[b][u] = reputation[b][u]]_vars

RECURSIVE SumOver(_, _)
SumOver(S, f) ==
    IF S = {} THEN 0
    ELSE LET x == CHOOSE y \in S : TRUE
         IN  f[x] + SumOver(S \ {x}, f)

(* The sum of the rule values of the votes world b records on the targets  *)
(* written by u                                                            *)
RecordedPoints(b, u) ==
    LET Cells == {c \in Targets \X Users \X VoteTypes : c[1].author = u}
    IN  SumOver(Cells, [c \in Cells |->
                           PairCount(b, c[1], c[2], {c[3]}) * Rule(c[1], c[3])])

(* C4: after any sequence of vote calls the stored reputation of every     *)
(* author equals the initial reputation plus the rule values of the votes  *)
(* currently recorded on the author's targets.                             *)
C4_ReputationConservation ==
    \A b \in Backends, u \in Users : reputation[b][u] = 0 + RecordedPoints(b, u)

(* C5: a vote call of the target's author reports self_vote in every      *)
(* world, for either polarity and in any ledger state, and leaves the      *)
(* stores, the cache, every stored reputation and every profile object as  *)
(* they were.                                                              *)
C5_SelfVote ==
    [][(last'.op = "vote" /\ IsAuthenticated(last'.user)
        /\ last'.user = last'.obj.author) =>
          /\ \A b \in Backends : last'.result[b] = "self_vote"
          /\ UNCHANGED <<dbVotes, memVotes, cache, reputation, profile>>]_vars

(* The author has voted on an own target that carries other users' votes.  *)
C5_Witness ==
    /\ last.op = "vote"
    /\ last.user = last.obj.author
    /\ \A b \in Backends : last.result[b] = "self_vote"
    /\ \A b \in Backends : \E user \in Voters : Held(b, last.obj, user) # None
    /\ \A b \in Backends : Held(b, last.obj, last.user) = None

(* C6: a vote call without a user or with an unauthenticated user reports  *)
(* unauthorized in every world and leaves the stores, the cache, every     *)
(* stored reputation and every profile object as they were.                *)
C6_Unauthorized ==
    [][(last'.op = "vote" /\ ~IsAuthenticated(last'.user)) =>
          /\ \A b \in Backends : last'.result[b] = "unauthorized"
          /\ UNCHANGED <<dbVotes, memVotes, cache, reputation, profile>>]_vars

(* An unauthenticated user object has voted on a target that carries votes. *)
C6_Witness ==
    /\ last.op = "vote"
    /\ last.user = AnonymousUser
    /\ \A b \in Backends : last.result[b] = "unauthorized"
    /\ \A b \in Backends : \E user \in Voters : Held(b, last.obj, user) # None

(* The previous call and this one are votes of the authenticated           *)
(* non-author `user` on `obj`, asking for P and then for Q.                *)
TwoCalls(obj, user, P, Q) ==
    /\ user # obj.author
    /\ last.op = "vote" /\ last.obj = obj /\ last.user = user
    /\ last.vote_type = P
    /\ last'.op = "vote" /\ last'.obj = obj /\ last'.user = user
    /\ last'.vote_type = Q

(* C7: when a non-author who holds no vote on a target casts the same      *)
(* polarity twice in a row, the calls report added and then removed, and   *)
(* afterwards get_user_vote is None again and get_vote_score and the       *)
(* author's stored reputation are what they were before the first call.    *)
C7_ToggleRoundTrip ==
    [][\A obj \in Targets, user \in Users, P \in VoteTypes :
          (TwoCalls(obj, user, P, P)
           /\ \A b \in Backends : last.pre.user_vote[b] = None)
          => \A b \in Backends :
                /\ last.result[b] = "added"
                /\ last'.result[b] = "removed"
                /\ Observed(obj, user)'.user_vote[b] = None
                /\ Observed(obj, user)'.score[b] = last.pre.score[b]
                /\ Observed(obj, user)'.reputation[b] = last.pre.reputation[b]]_vars

(* What C8 says of the second call, in world b *)
C8_SecondCall(b, obj, user, P) ==
    /\ last'.result[b] = "updated"
    /\ Observed(obj, user)'.user_vote[b] = Other(P)
    /\ get_vote_count(RepoGetVotesForObject(b, obj).value)'
          = get_vote_count(RepoGetVotesForObject(b, obj).value)
    /\ b \in DbBackends =>
          Observed(obj, user)'.score[b]
             = Observed(obj, user).score[b] + (IF P = "up" THEN 0 - 2 ELSE 2)

C9_BackendsAgree ==
    \A b \in Backends :
        /\ last.result[b] = last.result["django"]
        /\ \A obj \in Targets :
              LET votes == RepoGetVotesForObject(b, obj).value
                  ref == RepoGetVotesForObject("django", obj).value
              IN  /\ get_vote_count(votes) = get_vote_count(ref)
                  /\ get_vote_score(votes) = get_vote_score(ref)
                  /\ Len(get_upvotes(votes)) = Len(get_upvotes(ref))
                  /\ Len(get_downvotes(votes)) = Len(get_downvotes(ref))
                  /\ \A user \in Actors :
                        RepoGetUserVote(b, obj, user).value
                           = RepoGetUserVote("django", obj, user).value

-----------------------------------------------------------------------------
(* C10: through the caching repository, checked under CacheSpec            *)

(* Every read through the caching repository returns what the store holds  *)
CacheAnswersLikeStore ==
    \A obj \in Targets :
        /\ CachedGetVotesForObject(dbVotes["cached"], cache, obj).value
              = DjangoGetVotesForObject(dbVotes["cached"], obj)
        /\ \A user \in Actors :
              CachedGetUserVote(dbVotes["cached"], cache, obj, user).value
                 = DjangoGetUserVote(dbVotes["cached"], obj, user)

(* The step changed the record of (user, obj) in the store *)
PairChanged(obj, user) ==
    \E vt \in VoteTypes :
        PairCountAfter("cached", obj, user, {vt}) # PairCount("cached", obj, user, {vt})

(* C10: every vote through the caching repository leaves neither the list  *)
(* entry of the target nor the entry of the (target, user) pair in the     *)
(* cache, and in every state reached by votes, reads and expiring entries  *)
(* every read through the cache returns what the store holds.              *)
C10_CacheInvalidation ==
    /\ []CacheAnswersLikeStore
    /\ [][\A obj \in Targets, user \in Users :
             PairChanged(obj, user) =>
                 /\ AllKey(obj) \notin DOMAIN cache'
                 /\ UserKey(obj, user) \notin DOMAIN cache']_vars

(* Both entries of a pair are in the cache and hold the vote that was      *)
(* cast last, on a target with two votes: the entries were filled after    *)
(* the last vote.                                                          *)
C10_Witness ==
    \E obj \in Targets, user \in Voters :
        /\ AllKey(obj) \in DOMAIN cache
        /\ Len(cache[AllKey(obj)]) = 2
        /\ UserKey(obj, user) \in DOMAIN cache
        /\ cache[UserKey(obj, user)] = "down"
        /\ Held("cached", obj, user) = "down"

-----------------------------------------------------------------------------
(* The caching repository under interleaving: one thread reads through     *)
(* the cache while another votes. Each statement of                        *)
(* CachedVoteRepository that touches the cache or the store is one step.   *)

(* The target the two threads work on *)
RaceTargets == {Question1}

IdleReader == [pc |-> "idle", op |-> "none", obj |-> Question1, user |-> None,
               value |-> None]

IdleVoter == [pc |-> "idle", obj |-> Question1, user |-> None, result |-> "none"]

CacheRaceInit ==
    /\ dbVotes = [b \in DbBackends |-> EmptyBag]
    /\ memVotes = [t \in Targets |-> << >>]
    /\ cache = << >>
    /\ reputation = [b \in Backends |-> [u \in Users |-> 0]]
    /\ profile = [b \in Backends |->
                    [t \in Targets |-> [loaded |-> FALSE, reputation_points |-> 0]]]
    /\ last = NoCall
    /\ answers = NoneAccepted
    /\ calc = NoCalc
    /\ calls = [reader |-> IdleReader, voter |-> IdleVoter]

(* The key a read works on *)
ReadKey(op, obj, user) == IF op = "get_votes_for_object" THEN AllKey(obj)
                          ELSE UserKey(obj, user)

(* cache.get(cache_key) is not None: a stored list, empty or not, is a    *)
(* hit; a stored None is not                                               *)
CacheHit(c, op, key) ==
    /\ key \in DOMAIN c
    /\ op = "get_user_vote" => c[key] # None

(* cached = cache.get(cache_key): on a hit the read returns at once, on a  *)
(* miss it goes on to the store                                            *)
ReadCacheGet(op, obj, user) ==
    /\ calls.reader.pc = "idle"
    /\ calls' = [calls EXCEPT !.reader =
                    IF CacheHit(cache, op, ReadKey(op, obj, user))
                    THEN [pc |-> "idle", op |-> op, obj |-> obj, user |-> user,
                          value |-> cache[ReadKey(op, obj, user)]]
                    ELSE [pc |-> "store", op |-> op, obj |-> obj, user |-> user,
                          value |-> None]]
    /\ UNCHANGED <<answers, dbVotes, memVotes, cache, reputation, profile, last, calc>>

(* votes = list(super().get_votes_for_object(obj)) or                      *)
(* vote_type = super().get_user_vote(obj, user)                            *)
ReadStore ==
    /\ calls.reader.pc = "store"
    /\ calls' = [calls EXCEPT !.reader.pc = "fill",
                              !.reader.value =
                    IF calls.reader.op = "get_votes_for_object"
                    THEN DjangoGetVotesForObject(dbVotes["cached"], calls.reader.obj)
                    ELSE DjangoGetUserVote(dbVotes["cached"], calls.reader.obj,
                                           calls.reader.user)]
    /\ UNCHANGED <<answers, dbVotes, memVotes, cache, reputation, profile, last, calc>>

(* cache.set(cache_key, value, self.CACHE_TTL); return value *)
ReadFill ==
    /\ calls.reader.pc = "fill"
    /\ cache' = CacheSet(cache, ReadKey(calls.reader.op, calls.reader.obj,
                                        calls.reader.user), calls.reader.value)
    /\ calls' = [calls EXCEPT !.reader.pc = "idle"]
    /\ UNCHANGED <<answers, dbVotes, memVotes, reputation, profile, last, calc>>

(* result = super().vote(obj, user, vote_type) *)
VoteStore(obj, user, vote_type) ==
    /\ calls.voter.pc = "idle"
    /\ LET r == DjangoVote(dbVotes["cached"], obj, user, vote_type)
       IN  /\ dbVotes' = [dbVotes EXCEPT !["cached"] = r.rows]
           /\ calls' = [calls EXCEPT !.voter =
                           [pc |-> "invalidate", obj |-> obj, user |-> user,
                            result |-> r.result]]
    /\ UNCHANGED <<answers, memVotes, cache, reputation, profile, last, calc>>

(* self._invalidate_cache(obj, user); return result *)
VoteInvalidate ==
    /\ calls.voter.pc = "invalidate"
    /\ cache' = InvalidateCache(cache, calls.voter.obj, calls.voter.user)
    /\ calls' = [calls EXCEPT !.voter.pc = "idle"]
    /\ UNCHANGED <<answers, dbVotes, memVotes, reputation, profile, last, calc>>

CacheRaceNext ==
    \/ \E obj \in RaceTargets, user \in Voters :
          \E op \in {"get_votes_for_object", "get_user_vote"} :
              ReadCacheGet(op, obj, user)
    \/ ReadStore
    \/ ReadFill
    \/ \E obj \in RaceTargets, user \in Voters, vote_type \in VoteTypes :
          VoteStore(obj, user, vote_type)
    \/ VoteInvalidate

CacheRaceSpec == CacheRaceInit /\ [][CacheRaceNext]_vars

(* What a read through the cache that starts now and runs alone returns    *)
(* is what the store holds                                                 *)
ReadsAnswerLikeStore ==
    \A obj \in RaceTargets :
        /\ CachedGetVotesForObject(dbVotes["cached"], cache, obj).value
              = DjangoGetVotesForObject(dbVotes["cached"], obj)
        /\ \A user \in Voters :
              CachedGetUserVote(dbVotes["cached"], cache, obj, user).value
                 = DjangoGetUserVote(dbVotes["cached"], obj, user)

(* C11: when threads reading through the cache and voting interleave,      *)
(* then whenever no vote is in flight (every vote that started has         *)
(* returned) a read that starts returns the vote list and the vote the     *)
(* store holds: no entry older than the store is left in the cache.        *)
C11_NoStaleWindow ==
    calls.voter.pc = "idle" => ReadsAnswerLikeStore

-----------------------------------------------------------------------------
(* VoteableMixin.vote under interleaving, on the persistent repository:    *)
(* two requests, each on its own freshly fetched target instance, run      *)
(* vote() at the same time. Each statement that reads or writes the        *)
(* database is one step.                                                   *)

Procs == {"p1", "p2"}

IdleCall == [pc |-> "idle", obj |-> Question1, user |-> None, vote_type |-> "up",
             old_vote_type |-> None, got |-> [status |-> "none", vote |-> None],
             result |-> "none", points |-> 0, reputation_points |-> 0]

(* The ledgers the race starts from: for every (target, voter) pair no     *)
(* row, or one row of either type                                          *)
RacePairs == Targets \X Voters

RECURSIVE RowsOf(_, _)
RowsOf(pairs, held) ==
    IF pairs = {} THEN EmptyBag
    ELSE LET c == CHOOSE x \in pairs : TRUE
             rest == RowsOf(pairs \ {c}, held)
         IN  IF held[c] = None THEN rest
             ELSE rest (+) SetToBag({VoteRow(c[2], c[1], held[c])})

(* The rule values of the rows of a ledger on the targets written by u *)
LedgerPoints(rows, u) ==
    LET Cells == {c \in Targets \X Users \X VoteTypes : c[1].author = u}
    IN  SumOver(Cells, [c \in Cells |->
            PairCountIn([b \in DbBackends |-> rows], memVotes, "django",
                        c[1], c[2], {c[3]})
               * Calculate(Lower(c[1].cls), c[3], FALSE, None)])

RaceInit ==
    /\ \E held \in [RacePairs -> VoteTypes \cup {None}] :
          LET rows == RowsOf(RacePairs, held)
          IN  /\ dbVotes = [b \in DbBackends |-> rows]
              /\ reputation = [b \in Backends |->
                                  [u \in Users |-> LedgerPoints(rows, u)]]
              /\ calls = [procs |-> [p \in Procs |-> IdleCall],
                          start |-> LedgerPoints(rows, "u1")]
    /\ memVotes = [t \in Targets |-> << >>]
    /\ cache = << >>
    /\ profile = [b \in Backends |->
                    [t \in Targets |-> [loaded |-> FALSE, reputation_points |-> 0]]]
    /\ last = NoCall
    /\ answers = NoneAccepted
    /\ calc = NoCalc

(* DjangoVoteRepository.vote after its lookup, with a create() that the  *)
(* database does not check for uniqueness (the variant C12 is checked      *)
(* against)                                                                *)
DjangoVoteWrite_InsertUnchecked(rows, got, obj, user, vote_type) ==
    IF got.status = "ok"
    THEN IF got.vote.vote_type = vote_type
         THEN [result |-> "removed", rows |-> rows (-) SetToBag({got.vote})]
         ELSE [result |-> "updated",
               rows |-> (rows (-) SetToBag({got.vote}))
                        (+) SetToBag({VoteRow(user, obj, vote_type)})]
    ELSE [result |-> "added",
          rows |-> rows (+) SetToBag({VoteRow(user, obj, vote_type)})]

(* DjangoVoteRepository.vote after its lookup returned `got`: delete,      *)
(* save or create. vote.delete() of a row that is gone deletes nothing;    *)
(* vote.save() updates the row by its key and inserts it when it is gone;  *)
(* create() is subject to the uniqueness constraint. [result, rows]        *)
DjangoVoteWrite(rows, got, obj, user, vote_type) ==
    LET here == VoteObjectsGet(rows, obj, user)
        without == IF here.status = "ok" THEN rows (-) SetToBag({here.vote})
                   ELSE rows
    IN  IF got.status = "ok"
        THEN IF got.vote.vote_type = vote_type
             THEN [result |-> "removed", rows |-> without]
             ELSE [result |-> "updated",
                   rows |-> without (+) SetToBag({VoteRow(user, obj, vote_type)})]
        ELSE IF got.status = "DoesNotExist"
        THEN LET made == VoteObjectsCreate(rows, VoteRow(user, obj, vote_type))
             IN  IF made.status = "ok"
                 THEN [result |-> "added", rows |-> made.rows]
                 ELSE [result |-> made.status, rows |-> rows]
        ELSE [result |-> got.status, rows |-> rows]

(* vote() up to old_vote_type = self.get_user_vote(user); the guards pass  *)
(* for an authenticated non-author                                         *)
RaceBegin(p, obj, user, vote_type) ==
    /\ calls.procs[p].pc = "idle"
    /\ calls' = [calls EXCEPT !.procs[p] =
                    [IdleCall EXCEPT !.pc = "get", !.obj = obj, !.user = user,
                        !.vote_type = vote_type,
                        !.old_vote_type =
                            DjangoGetUserVote(dbVotes["django"], obj, user)]]
    /\ UNCHANGED <<answers, dbVotes, memVotes, cache, reputation, profile, last, calc>>

(* vote = Vote.objects.get(user=..., content_type=..., object_id=...) *)
RaceGet(p) ==
    LET c == calls.procs[p]
    IN  /\ c.pc = "get"
        /\ calls' = [calls EXCEPT !.procs[p].pc = "write",
                        !.procs[p].got = VoteObjectsGet(dbVotes["django"], c.obj, c.user)]
        /\ UNCHANGED <<answers, dbVotes, memVotes, cache, reputation, profile,
                       last, calc>>

(* The write of DjangoVoteRepository.vote, and _handle_reputation up to    *)
(* the points; an exception ends the call                                  *)
RaceWrite(p) ==
    LET c == calls.procs[p]
        w == DjangoVoteWrite(dbVotes["django"], c.got, c.obj, c.user, c.vote_type)
        raised == w.result \notin {"added", "updated", "removed"}
        points == IF raised THEN 0
                  ELSE HandleReputationPoints(c.obj, w.result, c.old_vote_type,
                                              c.vote_type)
    IN  /\ c.pc = "write"
        /\ dbVotes' = [dbVotes EXCEPT !["django"] = w.rows]
        /\ calls' = [calls EXCEPT !.procs[p].result = w.result,
                        !.procs[p].points = points,
                        !.procs[p].pc = IF points # 0 THEN "load" ELSE "done"]
        /\ UNCHANGED <<answers, memVotes, cache, reputation, profile, last, calc>>

(* self.author.profile: the instance reads the profile row *)
RaceLoadProfile(p) ==
    LET c == calls.procs[p]
    IN  /\ c.pc = "load"
        /\ calls' = [calls EXCEPT !.procs[p].pc = "save",
                        !.procs[p].reputation_points =
                            reputation["django"][c.obj.author]]
        /\ UNCHANGED <<answers, dbVotes, memVotes, cache, reputation, profile,
                       last, calc>>

(* profile.reputation_points += points; profile.save() *)
RaceSaveProfile(p) ==
    LET c == calls.procs[p]
    IN  /\ c.pc = "save"
        /\ reputation' = [reputation EXCEPT !["django"][c.obj.author] =
                              c.reputation_points + c.points]
        /\ calls' = [calls EXCEPT !.procs[p].pc = "done"]
        /\ UNCHANGED <<answers, dbVotes, memVotes, cache, profile, last, calc>>

RaceNext ==
    \/ \E p \in Procs, obj \in Targets, user \in Voters, vote_type \in VoteTypes :
          RaceBegin(p, obj, user, vote_type)
    \/ \E p \in Procs : RaceGet(p)
    \/ \E p \in Procs : RaceWrite(p)
    \/ \E p \in Procs : RaceLoadProfile(p)
    \/ \E p \in Procs : RaceSaveProfile(p)

RaceSpec == RaceInit /\ [][RaceNext]_vars

(* The call of p has done its write (or was ended by an exception) *)
Wrote(p) == calls.procs[p].pc \in {"load", "save", "done"}

(* Both calls are by the same user on the same target and both lookups     *)
(* found no row                                                            *)
BothSawNoVote ==
    /\ calls.procs["p1"].obj = calls.procs["p2"].obj
    /\ calls.procs["p1"].user = calls.procs["p2"].user
    /\ \A p \in Procs : calls.procs[p].got.status = "DoesNotExist"

(* C12: in every interleaving of two vote calls the table holds at most    *)
(* one row per (user, target); and when two calls of the same user on the  *)
(* same target both looked up the vote before either wrote, one create is  *)
(* accepted and reports added, the other is rejected with IntegrityError,  *)
(* and one row is in the table.                                            *)
C12_ConcurrentFirstVotes ==
    /\ \A obj \in Targets, user \in Users : PairTotal("django", obj, user) <= 1
    /\ (BothSawNoVote /\ \A p \in Procs : Wrote(p)) =>
          /\ \E p \in Procs :
                /\ calls.procs[p].result = "added"
                /\ \A q \in Procs \ {p} : calls.procs[q].result = "IntegrityError"
          /\ PairTotal("django", calls.procs["p1"].obj, calls.procs["p1"].user) = 1

(* Two first votes of one user on one target have raced: both found no    *)
(* row, p1 asked for up and p2 for down, and both have written.            *)
C12_Witness ==
    /\ BothSawNoVote
    /\ \A p \in Procs : Wrote(p)
    /\ calls.procs["p1"].vote_type = "up"
    /\ calls.procs["p2"].vote_type = "down"
    /\ calls.procs["p2"].result = "added"
    /\ calls.procs["p1"].result = "IntegrityError"

(* C13: a vote call whose create was rejected by the uniqueness            *)
(* constraint is retried inside the call and ends with a regular kind:     *)
(* every call that has ended reports added, updated or removed (with two   *)
(* calls in the race the row that caused the conflict is there for the     *)
(* retry, so the retry cannot fail).                                       *)
C13_ConflictRetried ==
    \A p \in Procs :
        calls.procs[p].pc = "done" =>
            calls.procs[p].result \in {"added", "updated", "removed"}

(* The points of the calls that have ended on content of u *)
AppliedPoints(u) ==
    LET Done == {p \in Procs : calls.procs[p].pc = "done"
                               /\ calls.procs[p].obj.author = u}
    IN  SumOver(Done, [p \in Done |-> calls.procs[p].points])

(* C14: when the calls have ended, the stored reputation of the author is  *)
(* the reputation at the start plus the points of every call, in every     *)
(* interleaving.                                                           *)
C14_NoLostUpdate ==
    (\A p \in Procs : calls.procs[p].pc = "done") =>
        reputation["django"]["u1"] = calls.start + AppliedPoints("u1")

-----------------------------------------------------------------------------
(* The elements of a list *)
Elements(seq) == {seq[i] : i \in 1..Len(seq)}

(* C15: in every reachable state, in every world and for every target,     *)
(* get_vote_score is the number of upvotes minus the number of downvotes,  *)
(* the upvotes and the downvotes are disjoint sublists of the votes, and   *)
(* together they are all the votes (the count is ups plus downs).          *)
C15_ScorePartition ==
    \A b \in Backends, obj \in Targets :
        LET votes == RepoGetVotesForObject(b, obj).value
            ups == get_upvotes(votes)
            downs == get_downvotes(votes)
        IN  /\ get_vote_score(votes) = Len(ups) - Len(downs)
            /\ Elements(ups) \subseteq Elements(votes)
            /\ Elements(downs) \subseteq Elements(votes)
            /\ Elements(ups) \cap Elements(downs) = {}
            /\ Elements(ups) \cup Elements(downs) = Elements(votes)
            /\ get_vote_count(votes) = Len(ups) + Len(downs)

(* The same over the persistent and the caching world only *)
C15_DbWorldsOnly ==
    \A b \in DbBackends, obj \in Targets :
        LET votes == RepoGetVotesForObject(b, obj).value
            ups == get_upvotes(votes)
            downs == get_downvotes(votes)
        IN  /\ get_vote_score(votes) = Len(ups) - Len(downs)
            /\ Elements(ups) \cup Elements(downs) = Elements(votes)
            /\ Elements(ups) \cap Elements(downs) = {}
            /\ get_vote_count(votes) = Len(ups) + Len(downs)

-----------------------------------------------------------------------------
(* obj.get_user_vote(user) in world b *)
UserVoteRead(b, obj, user) == RepoGetUserVote(b, obj, user).value

(* What the read does to the cache: nothing, or it sets the entry of its   *)
(* own key to the value it returns                                         *)
ReadLeavesCache(b, obj, user) ==
    LET r == RepoGetUserVote(b, obj, user)
    IN  \/ r.cache = cache
        \/ /\ b = "cached" /\ user \in Users
           /\ r.cache = CacheSet(cache, UserKey(obj, user), r.value)

(* C16: get_user_vote changes no vote and no reputation (it returns a      *)
(* value and at most caches it); it returns None for a missing or          *)
(* unauthenticated user and for a user without a record on the target,     *)
(* and otherwise the type of the user's one record; and that type is the   *)
(* type of the user's most recent vote call on the target that reported    *)
(* added or updated and was not followed by a removed: a call that         *)
(* reports added or updated makes the read return its type, a call that    *)
(* reports removed makes it return None, and no call changes what the      *)
(* read returns for any other (target, user) pair.                         *)
C16_UserVote ==
    /\ [](\A b \in Backends, obj \in Targets :
            /\ \A user \in {None, AnonymousUser} : UserVoteRead(b, obj, user) = None
            /\ \A user \in Users :
                  /\ PairTotal(b, obj, user) <= 1
                  /\ UserVoteRead(b, obj, user) = Held(b, obj, user)
            /\ \A user \in Actors : ReadLeavesCache(b, obj, user))
    /\ [][last'.op = "vote" =>
            \A b \in Backends, obj \in Targets, user \in Users :
                UserVoteRead(b, obj, user)' =
                    IF obj = last'.obj /\ user = last'.user
                       /\ last'.result[b] \in {"added", "updated"}
                    THEN last'.vote_type
                    ELSE IF obj = last'.obj /\ user = last'.user
                            /\ last'.result[b] = "removed"
                    THEN None
                    ELSE UserVoteRead(b, obj, user)]_vars

(* A user changed a vote to down on a target on which another user holds   *)
(* up: the reads return down for the one and up for the other.             *)
C16_Witness ==
    /\ last.op = "vote" /\ last.vote_type = "down"
    /\ \A b \in Backends :
          /\ last.result[b] = "updated"
          /\ UserVoteRead(b, last.obj, last.user) = "down"
          /\ \E user \in Voters \ {last.user} : UserVoteRead(b, last.obj, user) = "up"
          /\ UserVoteRead(b, last.obj, AnonymousUser) = None

-----------------------------------------------------------------------------
(* The reputation calculator on its own: calculate() called with every     *)
(* input, and _handle_reputation of a freshly fetched instance, which      *)
(* calls it and applies the points to the author's stored reputation.      *)

(* The model names calculate is called with: the three voteable classes,   *)
(* the alias, and a name without rules                                     *)
ModelNames == {"question", "answer", "review", "coursereview", "comment"}

Review1 == [cls |-> "CourseReview", pk |-> 1, author |-> "u1"]

CalcTargets == {Question1, Answer1, Review1}

(* The stored reputation stays within -MaxBalance .. MaxBalance *)
MaxBalance == 30

CalcInit == Init

(* self._reputation_calculator.calculate(model_name, vote_type, **kwargs) *)
CalculateCall(model_name, vote_type, removed, new_vote_type) ==
    /\ calc' = [via |-> "calculate", model_name |-> model_name,
                vote_type |-> vote_type, removed |-> removed,
                new_vote_type |-> new_vote_type,
                points |-> Calculate(model_name, vote_type, removed, new_vote_type)]
    /\ UNCHANGED <<answers, dbVotes, memVotes, cache, reputation, profile, last, calls>>

(* obj._handle_reputation(result, old_vote_type, new_vote_type) on a       *)
(* freshly fetched obj: the calculate call it makes, then                  *)
(* _apply_reputation_change                                                *)
HandleReputation(obj, result, old_vote_type, new_vote_type) ==
    LET points == HandleReputationPoints(obj, result, old_vote_type, new_vote_type)
        balance == reputation["django"][obj.author] + points
    IN  /\ balance \in (0 - MaxBalance)..MaxBalance
        /\ calc' = [via |-> "_handle_reputation", model_name |-> Lower(obj.cls),
                    vote_type |-> IF result \in {"removed", "updated"}
                                  THEN old_vote_type ELSE new_vote_type,
                    removed |-> (result = "removed"),
                    new_vote_type |-> IF result = "updated" THEN new_vote_type
                                      ELSE None,
                    points |-> points]
        /\ reputation' = IF points # 0
                         THEN [reputation EXCEPT !["django"][obj.author] = balance]
                         ELSE reputation
        /\ UNCHANGED <<answers, dbVotes, memVotes, cache, profile, last, calls>>

CalcNext ==
    \/ \E model_name \in ModelNames, vote_type \in VoteTypes,
          removed \in BOOLEAN, new_vote_type \in VoteTypes \cup {None} :
          CalculateCall(model_name, vote_type, removed, new_vote_type)
    \/ \E obj \in CalcTargets, result \in Transitions,
          old_vote_type \in VoteTypes, new_vote_type \in VoteTypes :
          HandleReputation(obj, result, old_vote_type, new_vote_type)

CalcSpec == CalcInit /\ [][CalcNext]_vars

(* calculate(model_name, vote_type): the default call shape *)
Base(model_name, vote_type) == Calculate(model_name, vote_type, FALSE, None)

(* C17: whenever calculate was called with removed=True its value is the   *)
(* negation of calculate(model_name, vote_type), so the points of an       *)
(* added vote and of its removal sum to zero; and when _handle_reputation  *)
(* handles a removed it changes the stored reputation by that negation.    *)
C17_RemovedNegates ==
    /\ [](calc.removed =>
            /\ calc.points = 0 - Base(calc.model_name, calc.vote_type)
            /\ Base(calc.model_name, calc.vote_type) + calc.points = 0)
    /\ [][(calc'.via = "_handle_reputation" /\ calc'.removed) =>
            reputation'["django"]["u1"] =
                reputation["django"]["u1"] - Base(calc'.model_name, calc'.vote_type)]_vars

(* The removal of a question's down vote was calculated: +2 *)
C17_Witness ==
    /\ calc.removed
    /\ calc.model_name = "question" /\ calc.vote_type = "down"
    /\ calc.points = 2

(* C18: whenever calculate was called with new_vote_type=Q (and not        *)
(* removed) its value is calculate(c, Q) - calculate(c, P), which is       *)
(* calculate(c, P, removed=True) + calculate(c, Q), and 0 when P = Q; and  *)
(* when _handle_reputation handles an updated it changes the stored        *)
(* reputation as removing the old vote and adding the new one would.       *)
C18_ChangeIsDifference ==
    /\ []((~calc.removed /\ calc.new_vote_type # None) =>
            /\ calc.points = Base(calc.model_name, calc.new_vote_type)
                                - Base(calc.model_name, calc.vote_type)
            /\ calc.points = Calculate(calc.model_name, calc.vote_type, TRUE, None)
                                + Base(calc.model_name, calc.new_vote_type)
            /\ calc.new_vote_type = calc.vote_type => calc.points = 0)
    /\ [][(calc'.via = "_handle_reputation" /\ calc'.new_vote_type # None) =>
            reputation'["django"]["u1"] =
                reputation["django"]["u1"]
                + Calculate(calc'.model_name, calc'.vote_type, TRUE, None)
                + Base(calc'.model_name, calc'.new_vote_type)]_vars

(* A question's vote changed from up to down: -12, applied to a stored     *)
(* reputation of 20                                                        *)
C18_Witness ==
    /\ calc.via = "_handle_reputation"
    /\ calc.model_name = "question"
    /\ calc.vote_type = "up" /\ calc.new_vote_type = "down"
    /\ calc.points = 0 - 12
    /\ reputation["django"]["u1"] = 8

(* C20: in every call shape calculate("coursereview", ...) returns what    *)
(* calculate("review", ...) returns, and _handle_reputation of a           *)
(* CourseReview changes the stored reputation of its author by the value   *)
(* of the review rules.                                                    *)
C20_CourseReviewAlias ==
    /\ [](calc.model_name = "coursereview" =>
            calc.points = Calculate("review", calc.vote_type, calc.removed,
                                    calc.new_vote_type))
    /\ [][(calc'.via = "_handle_reputation" /\ calc'.model_name = "coursereview") =>
            reputation'["django"]["u1"] =
                reputation["django"]["u1"]
                + Calculate("review", calc'.vote_type, calc'.removed,
                            calc'.new_vote_type)]_vars

(* An up vote was added to a course review: the author gained the 5 of     *)
(* review_upvote                                                           *)
C20_Witness ==
    /\ calc.via = "_handle_reputation"
    /\ calc.model_name = "coursereview"
    /\ calc.vote_type = "up" /\ ~calc.removed /\ calc.new_vote_type = None
    /\ calc.points = 5
    /\ reputation["django"]["u1"] = 5

-----------------------------------------------------------------------------
(* The table has a rule for votes of type vote_type on model_name *)
HasRule(model_name, vote_type) ==
    LET name == IF model_name = "coursereview" THEN "review" ELSE model_name
    IN  (name \o "_" \o vote_type \o "vote") \in DOMAIN REPUTATION_RULES

(* The value of the rule, 0 without a rule *)
RuleOrZero(model_name, vote_type) ==
    LET name == IF model_name = "coursereview" THEN "review" ELSE model_name
    IN  IF HasRule(model_name, vote_type)
        THEN REPUTATION_RULES[name \o "_" \o vote_type \o "vote"]
        ELSE 0

-----------------------------------------------------------------------------
-----------------------------------------------------------------------------
(* AuthorlessSpec: VoteableMixin.vote on targets without an author         *)

(* A voteable instance of a class that has no author attribute, and one    *)
(* whose author is None                                                    *)
Question2 == [cls |-> "Question", pk |-> 2]

Answer2 == [cls |-> "Answer", pk |-> 2, author |-> None]

AuthorlessTargets == {Question2, Answer2}

AuthorlessInit ==
    /\ calls = NoCalls
    /\ calc = NoCalc
    /\ dbVotes = [b \in DbBackends |-> EmptyBag]
    /\ memVotes = [t \in AuthorlessTargets |-> << >>]
    /\ cache = << >>
    /\ reputation = [b \in Backends |-> [u \in Users |-> 0]]
    /\ profile = [b \in Backends |->
                    [t \in AuthorlessTargets |->
                        [loaded |-> FALSE, reputation_points |-> 0]]]
    /\ last = NoCall
    /\ answers = NoneAccepted

AuthorlessNext ==
    \E obj \in AuthorlessTargets, user \in Voters \cup {AnonymousUser},
       vote_type \in VoteTypes :
        CastVote(obj, user, vote_type)

AuthorlessSpec == AuthorlessInit /\ [][AuthorlessNext]_vars

(* What the transition table says for the call of the step, in world b *)
TableKind(b) ==
    LET held == Held(b, last'.obj, last'.user)
    IN  IF held = None THEN "added"
        ELSE IF held = last'.vote_type THEN "removed" ELSE "updated"

(* C22: on a target without an author (no author attribute, or author      *)
(* None) every vote call of an authenticated user reports the kind of the  *)
(* transition table (added / updated / removed) in each world, and no      *)
(* stored reputation and no profile object changes.                        *)
C22_AuthorlessVote ==
    [][(last'.op = "vote" /\ IsAuthenticated(last'.user)) =>
          \A b \in Backends :
              /\ last'.result[b] = TableKind(b)
              /\ reputation'[b] = reputation[b]
              /\ profile'[b] = profile[b]]_vars

(* The part of C22 that holds: a target whose class has no author          *)
(* attribute.                                                              *)
C22_NoAuthorAttribute ==
    [][(last'.op = "vote" /\ IsAuthenticated(last'.user)
          /\ ~HasAuthor(last'.obj)) =>
          \A b \in Backends :
              /\ last'.result[b] = TableKind(b)
              /\ reputation'[b] = reputation[b]
              /\ profile'[b] = profile[b]]_vars

-----------------------------------------------------------------------------
(* ViewSpec: votes/views.py, the vote view over the persistent ledger.     *)
(* Every request fetches its own instance of the target, so the profile    *)
(* object of a request is always read from the stored row.                 *)

(* The vote_type of the URL: the two polarities and one other string *)
InvalidVoteType == "invalid"

RequestVoteTypes == VoteTypes \cup {InvalidVoteType}

Methods == {"POST", "GET"}

(* An id that no row has *)
NonexistentId == 9999

(* django_content_type: id -> model. User stands for the models that are   *)
(* not voteable.                                                           *)
ContentTypeTable == (1 :> "Question") @@ (2 :> "Answer") @@ (3 :> "User")

ContentTypeIds == DOMAIN ContentTypeTable \cup {NonexistentId}

ObjectIds == {1, NonexistentId}

User1 == [cls |-> "User", pk |-> 1]

(* The rows of a model's table *)
ModelObjects(model) ==
    IF model = "User" THEN {User1} ELSE {t \in Targets : t.cls = model}

(* The class has VoteableMixin among its bases *)
IsVoteable(obj) == obj \in Targets

(* A resolution that answers with the question whatever the ids are (the   *)
(* variant C24 is checked against)                                         *)
ResolveTarget_NoCheck(content_type_id, object_id) ==
    [status |-> "ok", obj |-> Question1]

(* get_object_or_404(ContentType, id=content_type_id), model_class(),      *)
(* get_object_or_404(model_class, id=object_id)                            *)
ResolveTarget(content_type_id, object_id) ==
    IF content_type_id \notin DOMAIN ContentTypeTable
    THEN [status |-> "Http404"]
    ELSE LET found == {o \in ModelObjects(ContentTypeTable[content_type_id]) :
                          o.pk = object_id}
         IN  IF found = {} THEN [status |-> "Http404"]
             ELSE [status |-> "ok", obj |-> CHOOSE o \in found : TRUE]

(* A check that lets every vote_type pass (the variant C23 is checked      *)
(* against)                                                                *)
ValidVoteType_Any(vote_type) == TRUE

(* vote_type in ["up", "down"] *)
ValidVoteType(vote_type) == vote_type \in {"up", "down"}

(* A check that never finds the requester to be the author (the variant    *)
(* C25 is checked against)                                                 *)
IsOwnContent_Never(obj, user) == FALSE

(* hasattr(obj, "author") and obj.author == request.user *)
IsOwnContent(obj, user) == HasAuthor(obj) /\ obj.author = user

(* A success body whose vote_count is the number of votes (the variant     *)
(* C26 is checked against)                                                 *)
SuccessResponse_CountNotScore(rows, obj, user, result) ==
    LET votes == DjangoGetVotesForObject(rows, obj)
    IN  [status |-> 200, success |-> TRUE, result |-> result,
         vote_count |-> get_vote_count(votes),
         user_vote |-> DjangoGetUserVote(rows, obj, user),
         upvotes |-> Len(get_upvotes(votes)),
         downvotes |-> Len(get_downvotes(votes))]

(* The JsonResponse of an accepted vote, built from reads made after       *)
(* obj.vote has returned                                                   *)
SuccessResponse(rows, obj, user, result) ==
    LET votes == DjangoGetVotesForObject(rows, obj)
    IN  [status |-> 200, success |-> TRUE, result |-> result,
         vote_count |-> get_vote_score(votes),
         user_vote |-> DjangoGetUserVote(rows, obj, user),
         upvotes |-> Len(get_upvotes(votes)),
         downvotes |-> Len(get_downvotes(votes))]

(* The view with its decorators: the response, whether obj.vote was        *)
(* called, and the rows and reputation it leaves. An exception that leaves *)
(* the view is the server-error response.                                  *)
VoteView(user, method, content_type_id, object_id, vote_type) ==
    LET Answer(resp) ==
            [response |-> resp, called |-> FALSE, rows |-> dbVotes["django"],
             reputation |-> reputation["django"]]
    IN  IF ~IsAuthenticated(user)
        THEN Answer([status |-> 302, location |-> "users:login"])
        ELSE IF method # "POST"
        THEN Answer([status |-> 405])
        ELSE IF ~ValidVoteType(vote_type)
        THEN Answer([status |-> 400, error |-> "Invalid vote type"])
        ELSE LET found == ResolveTarget(content_type_id, object_id)
             IN  IF found.status # "ok"
                 THEN Answer([status |-> 404])
                 ELSE IF IsOwnContent(found.obj, user)
                 THEN Answer([status |-> 400,
                              error |-> "Cannot vote on your own content"])
                 ELSE IF ~IsVoteable(found.obj)
                 THEN Answer([status |-> 500, exception |-> "AttributeError"])
                 ELSE LET out == VoteableVote("django", found.obj, user, vote_type)
                      IN  [response |->
                              IF out.result \in Transitions \cup
                                                {"unauthorized", "self_vote"}
                              THEN SuccessResponse(out.store, found.obj, user,
                                                   out.result)
                              ELSE [status |-> 500, exception |-> out.result],
                           called |-> TRUE, rows |-> out.store,
                           reputation |-> out.reputation]

(* One request to the vote URL *)
VoteRequest(user, method, content_type_id, object_id, vote_type) ==
    \E h \in {VoteView(user, method, content_type_id, object_id, vote_type)} :
        /\ dbVotes' = [dbVotes EXCEPT !["django"] = h.rows]
        /\ reputation' = [reputation EXCEPT !["django"] = h.reputation]
        /\ last' = [op |-> "request", user |-> user, method |-> method,
                    content_type_id |-> content_type_id,
                    object_id |-> object_id, vote_type |-> vote_type,
                    called |-> h.called, response |-> h.response]
        /\ UNCHANGED <<answers, memVotes, cache, profile, calls, calc>>

ViewInit == Init

ViewNext ==
    \E user \in Users \cup {AnonymousUser}, method \in Methods,
       content_type_id \in ContentTypeIds, object_id \in ObjectIds,
       vote_type \in RequestVoteTypes :
        VoteRequest(user, method, content_type_id, object_id, vote_type)

ViewSpec == ViewInit /\ [][ViewNext]_vars

(* The step is a request that left votes and reputations as they were and  *)
(* did not call obj.vote                                                   *)
RequestRejected ==
    /\ last'.response.status # 200
    /\ ~last'.called
    /\ dbVotes' = dbVotes
    /\ reputation' = reputation

(* The request of the step passed login_required and require_POST *)
ReachedView == IsAuthenticated(last'.user) /\ last'.method = "POST"

(* C23: a request whose vote_type is neither up nor down never calls       *)
(* obj.vote, is never answered as a success and changes no vote and no     *)
(* reputation; when it reaches the view (a logged-in user, POST) the       *)
(* answer is 400 "Invalid vote type". And after every request every        *)
(* stored vote has vote_type up or down.                                   *)
C23_PolarityValidation ==
    [][last'.op = "request" =>
          /\ last'.vote_type \notin VoteTypes =>
                /\ RequestRejected
                /\ ReachedView =>
                      last'.response = [status |-> 400,
                                        error |-> "Invalid vote type"]
          /\ \A r \in BagToSet(dbVotes'["django"]) : r.vote_type \in VoteTypes
      ]_vars

(* An invalid vote_type was refused while the ledger held votes *)
C23_Witness ==
    /\ last.op = "request" /\ last.vote_type = InvalidVoteType
    /\ IsAuthenticated(last.user) /\ last.method = "POST"
    /\ last.response.status = 400
    /\ dbVotes["django"] # EmptyBag

(* The ids of the request of the step name no stored target *)
TargetMissing ==
    \/ last'.content_type_id \notin DOMAIN ContentTypeTable
    \/ \A o \in ModelObjects(ContentTypeTable[last'.content_type_id]) :
          o.pk # last'.object_id

(* C24: a request whose content type id is unknown, or whose object id has *)
(* no row in the model's table, never calls obj.vote, is never answered as *)
(* a success and changes no vote and no reputation; when it reaches the    *)
(* view with a valid vote_type the answer is 404.                          *)
C24_NotFound ==
    [][(last'.op = "request" /\ TargetMissing) =>
          /\ RequestRejected
          /\ (ReachedView /\ last'.vote_type \in VoteTypes) =>
                last'.response = [status |-> 404]]_vars

(* A vote on an object id that has no row was answered 404 while the       *)
(* ledger held votes                                                       *)
C24_Witness ==
    /\ last.op = "request" /\ last.content_type_id = 1
    /\ last.object_id = NonexistentId
    /\ last.response.status = 404
    /\ dbVotes["django"] # EmptyBag

(* The request of the step names a stored target written by the requester *)
ByAuthor ==
    /\ last'.content_type_id \in DOMAIN ContentTypeTable
    /\ \E o \in ModelObjects(ContentTypeTable[last'.content_type_id]) :
          o.pk = last'.object_id /\ HasAuthor(o) /\ o.author = last'.user

(* C25: a request of a user who is not logged in is answered with the      *)
(* redirect to the login page, and a request of the target's author that   *)
(* reaches the view with a valid vote_type with 400 "Cannot vote on your   *)
(* own content"; neither kind of request calls obj.vote, is answered as a  *)
(* success or changes a vote or a reputation. Every success response       *)
(* carries result added, updated or removed.                               *)
C25_RejectedOutcomes ==
    [][last'.op = "request" =>
          /\ ~IsAuthenticated(last'.user) =>
                /\ RequestRejected
                /\ last'.response = [status |-> 302, location |-> "users:login"]
          /\ ByAuthor =>
                /\ RequestRejected
                /\ (ReachedView /\ last'.vote_type \in VoteTypes) =>
                      last'.response =
                         [status |-> 400,
                          error |-> "Cannot vote on your own content"]
          /\ last'.response.status = 200 =>
                last'.response.result \in Transitions]_vars

(* The author's vote on the own question was refused while the ledger      *)
(* held votes                                                              *)
C25_Witness ==
    /\ last.op = "request" /\ last.user = "u1" /\ last.content_type_id = 1
    /\ last.object_id = 1 /\ last.vote_type = "up" /\ last.method = "POST"
    /\ last.response.status = 400
    /\ dbVotes["django"] # EmptyBag

(* C26: the success response of a request reports the kind the transition  *)
(* table gives for the pair's vote before the request, upvotes and         *)
(* downvotes as the numbers of up and down votes of the target after the   *)
(* request, vote_count = upvotes - downvotes, and user_vote = the          *)
(* requested vote_type after added and updated, None after removed.        *)
C26_SuccessResponse ==
    [][(last'.op = "request" /\ last'.response.status = 200) =>
          LET obj == ResolveTarget(last'.content_type_id, last'.object_id).obj
              resp == last'.response
              held == Held("django", obj, last'.user)
              Count(VT) == Cardinality({u \in Users :
                              PairCountAfter("django", obj, u, VT) > 0})
          IN  /\ last'.called
              /\ resp.result = IF held = None THEN "added"
                               ELSE IF held = last'.vote_type THEN "removed"
                               ELSE "updated"
              /\ resp.upvotes = Count({"up"})
              /\ resp.downvotes = Count({"down"})
              /\ resp.vote_count = resp.upvotes - resp.downvotes
              /\ resp.user_vote = IF resp.result = "removed" THEN None
                                  ELSE last'.vote_type]_vars

(* A vote was changed from up to down through the view while another user  *)
(* held a down vote on the target                                          *)
C26_Witness ==
    /\ last.op = "request" /\ last.response.status = 200
    /\ last.response.result = "updated" /\ last.vote_type = "down"
    /\ last.response.downvotes = 2 /\ last.response.vote_count = -2

-----------------------------------------------------------------------------
Kinds == Transitions \cup {"unauthorized", "self_vote"}

(* C27: every vote call ends with one of the five kinds, and it reports    *)
(* added, updated or removed exactly when its write changed the ledger:    *)
(* stated for the write step of a call that runs next to another call.     *)
C27_CompletesWithKind ==
    [][\A p \in Procs :
          (calls.procs[p].pc = "write" /\ calls'.procs[p].pc # "write") =>
              /\ calls'.procs[p].result \in Kinds
              /\ calls'.procs[p].result \in Transitions <=>
                    dbVotes'["django"] # dbVotes["django"]]_vars

(* The same for calls that run one after the other on targets with an      *)
(* author, in the three worlds (this holds).                               *)
C27_SequentialCalls ==
    [][last'.op = "vote" =>
          \A b \in Backends :
              /\ last'.result[b] \in Kinds
              /\ last'.result[b] \in Transitions <=>
                    PairCountAfter(b, last'.obj, last'.user, {"up"})
                       # PairCount(b, last'.obj, last'.user, {"up"})
                    \/ PairCountAfter(b, last'.obj, last'.user, {"down"})
                       # PairCount(b, last'.obj, last'.user, {"down"})]_vars

-----------------------------------------------------------------------------
(* RepoSpec: the repositories used directly, as VoteManager does: one      *)
(* repository object of each kind serves every target. For the in-memory   *)
(* repository this means one list of votes, which every target sees.       *)

(* core.base.BaseVoteCommand.delete_vote, the default policy *)
BaseDeleteVote(obj, user) == "NotImplementedError"

(* A delete_vote that removes the vote of the pair (the variant C28 is     *)
(* checked against)                                                        *)
RepoDeleteVote_Removes(b, obj, user) ==
    IF b = "memory"
    THEN [result |-> None,
          store |-> SelectSeq(memVotes[obj],
                              LAMBDA v : ~MemoryMatches(v, obj, user)),
          cache |-> cache]
    ELSE LET got == VoteObjectsGet(dbVotes[b], obj, user)
         IN  [result |-> None,
              store |-> IF got.status = "ok"
                        THEN dbVotes[b] (-) SetToBag({got.vote})
                        ELSE dbVotes[b],
              cache |-> cache]

(* repository.delete_vote(obj, user) on DjangoVoteRepository,              *)
(* MemoryVoteRepository and CachedVoteRepository: their base class is the  *)
(* BaseVoteRepository of core/repositories.py, which defines no            *)
(* delete_vote, so the attribute lookup fails. [result, store, cache]      *)
RepoDeleteVote(b, obj, user) ==
    [result |-> "AttributeError", store |-> Store(b, obj), cache |-> cache]

(* VoteManager(repository).process_vote(obj, user, vote_type), the same    *)
(* call on a manager of each kind of repository                            *)
RepositoryVote(obj, user, vote_type) ==
    \E out \in {[b \in Backends |-> RepoVote(b, cache, obj, user, vote_type)]} :
        /\ dbVotes' = [b \in DbBackends |-> out[b].store]
        /\ memVotes' = [t \in Targets |-> out["memory"].store]
        /\ cache' = out["cached"].cache
        /\ last' = [op |-> "process_vote", obj |-> obj, user |-> user,
                    vote_type |-> vote_type,
                    result |-> [b \in Backends |-> out[b].result]]
        /\ UNCHANGED <<answers, reputation, profile, calls, calc>>

(* repository.delete_vote(obj, user) on each kind of repository, and on a  *)
(* repository that has the default policy                                  *)
RepositoryDeleteVote(obj, user) ==
    \E out \in {[b \in Backends |-> RepoDeleteVote(b, obj, user)]} :
        /\ dbVotes' = [b \in DbBackends |-> out[b].store]
        /\ memVotes' = [t \in Targets |-> out["memory"].store]
        /\ cache' = out["cached"].cache
        /\ last' = [op |-> "delete_vote", obj |-> obj, user |-> user,
                    default |-> BaseDeleteVote(obj, user),
                    result |-> [b \in Backends |-> out[b].result]]
        /\ UNCHANGED <<answers, reputation, profile, calls, calc>>

(* obj.get_votes / get_user_vote through the caching repository *)
RepositoryRead(obj, user) ==
    /\ cache' = CachedGetUserVote(dbVotes["cached"],
                    CachedGetVotesForObject(dbVotes["cached"], cache, obj).cache,
                    obj, user).cache
    /\ UNCHANGED <<answers, dbVotes, memVotes, reputation, profile, last, calls, calc>>

RepoInit == Init

RepoNext ==
    \/ \E obj \in Targets, user \in Voters, vote_type \in VoteTypes :
          RepositoryVote(obj, user, vote_type)
    \/ \E obj \in Targets, user \in Voters : RepositoryDeleteVote(obj, user)
    \/ \E obj \in Targets, user \in Voters : RepositoryRead(obj, user)

RepoSpec == RepoInit /\ [][RepoNext]_vars

Failures == {"NotImplementedError", "AttributeError"}

TargetView(b, obj) ==
    [votes |-> RepoGetVotesForObject(b, obj).value,
     score |-> get_vote_score(RepoGetVotesForObject(b, obj).value),
     user_vote |-> [u \in Voters |-> RepoGetUserVote(b, obj, u).value],
     kind |-> [c \in Voters \X VoteTypes |->
                  RepoVote(b, cache, obj, c[1], c[2]).result]]

(* C30: a vote on one target changes nothing of what is read of the other  *)
(* target with the same id and another type, in every world: its votes,    *)
(* its score, every user's vote on it and the kind a vote on it reports.   *)
C30_TargetsIndependent ==
    [][\A b \in Backends, obj \in Targets, other \in Targets :
          (last' # last /\ last'.op = "process_vote" /\ last'.obj = obj
             /\ other # obj) =>
              TargetView(b, other)' = TargetView(b, other)]_vars

(* The same for the two persistent worlds (this holds). *)
C30_DbWorlds ==
    [][\A b \in DbBackends, obj \in Targets, other \in Targets :
          (last' # last /\ last'.op = "process_vote" /\ last'.obj = obj
             /\ other # obj) =>
              TargetView(b, other)' = TargetView(b, other)]_vars

-----------------------------------------------------------------------------
(* obj.get_vote_score() in world b *)
ScoreRead(b, obj) == get_vote_score(RepoGetVotesForObject(b, obj).value)

(* The users who hold an up vote on obj in world b after the step *)
UpvotersAfter(b, obj) ==
    {u \in Users : PairCountAfter(b, obj, u, {"up"}) > 0}

(* A vote call on (obj, user) leaves every other pair's record and read,   *)
(* every other target's score and every user's reputation but the          *)
(* author's as they were, in world b                                       *)
FrameOfVote(b, obj, user) ==
    /\ \A t \in Targets, u \in Users :
          <<t, u>> # <<obj, user>> =>
              /\ PairCountAfter(b, t, u, {"up"}) = PairCount(b, t, u, {"up"})
              /\ PairCountAfter(b, t, u, {"down"}) = PairCount(b, t, u, {"down"})
              /\ UserVoteRead(b, t, u)' = UserVoteRead(b, t, u)
    /\ \A t \in Targets \ {obj} : ScoreRead(b, t)' = ScoreRead(b, t)
    /\ \A u \in Users \ {obj.author} : reputation'[b][u] = reputation[b][u]

(* A target that holds up votes only has the number of its upvoters as     *)
(* score, in world b after the step                                        *)
UpvotersGiveScore(b) ==
    \A t \in Targets :
        (\A u \in Users : PairCountAfter(b, t, u, {"down"}) = 0) =>
            ScoreRead(b, t)' = Cardinality(UpvotersAfter(b, t))

(* C29: in each world a vote call on (T, A) changes no vote record and no  *)
(* get_user_vote of another pair, no score of another target and no        *)
(* reputation of a user other than T's author; and after every call a      *)
(* target on which n users hold an up vote and nobody a down vote has      *)
(* score n.                                                                *)
C29_FrameAndScore ==
    [][\A b \in Backends, obj \in Targets, user \in Actors :
          (last'.op = "vote" /\ last'.obj = obj /\ last'.user = user) =>
              FrameOfVote(b, obj, user) /\ UpvotersGiveScore(b)]_vars

(* The frame alone, in the three worlds (this holds). *)
C29_FrameOnly ==
    [][\A b \in Backends, obj \in Targets, user \in Actors :
          (last'.op = "vote" /\ last'.obj = obj /\ last'.user = user) =>
              FrameOfVote(b, obj, user)]_vars

(* Frame and score in the two persistent worlds (this holds). *)
C29_DbWorlds ==
    [][\A b \in DbBackends, obj \in Targets, user \in Actors :
          (last'.op = "vote" /\ last'.obj = obj /\ last'.user = user) =>
              FrameOfVote(b, obj, user) /\ UpvotersGiveScore(b)]_vars

-----------------------------------------------------------------------------
(* RelatedSpec: vote calls on a question and on another user's answer to   *)
(* it, as in test_vote_on_answer                                           *)

(* An answer written by u2 to the question of u1 *)
Answer3 == [cls |-> "Answer", pk |-> 3, author |-> "u2", question |-> 1]

RelatedTargets == {Question1, Answer3}

RelatedInit ==
    /\ calls = NoCalls
    /\ calc = NoCalc
    /\ dbVotes = [b \in DbBackends |-> EmptyBag]
    /\ memVotes = [t \in RelatedTargets |-> << >>]
    /\ cache = << >>
    /\ reputation = [b \in Backends |-> [u \in Users |-> 0]]
    /\ profile = [b \in Backends |->
                    [t \in RelatedTargets |->
                        [loaded |-> FALSE, reputation_points |-> 0]]]
    /\ last = NoCall
    /\ answers = NoneAccepted

RelatedNext ==
    \E obj \in RelatedTargets, user \in Users, vote_type \in VoteTypes :
        CastVote(obj, user, vote_type)

RelatedSpec == RelatedInit /\ [][RelatedNext]_vars

(* The step is a vote of the question's author on the answer *)
QuestionAuthorVotesOnAnswer ==
    /\ last'.op = "vote" /\ last'.obj = Answer3
    /\ last'.user = Question1.author

(* The vote of the step is recorded as the transition table says, and the  *)
(* answer's author gets the delta, in world b                              *)
RecordedAndCredited(b) ==
    LET held == Held(b, Answer3, "u1")
        P == last'.vote_type
    IN  /\ last'.result[b] = TableKind(b)
        /\ PairCountAfter(b, Answer3, "u1", {P}) = IF held = P THEN 0 ELSE 1
        /\ PairTotalAfter(b, Answer3, "u1") = IF held = P THEN 0 ELSE 1
        /\ reputation'[b]["u2"] = reputation[b]["u2"]
              + MachineDelta(Answer3, last'.result[b], held, P)
        /\ reputation'[b]["u1"] = reputation[b]["u1"]

(* The users who hold a down vote on obj in world b after the step *)
DownvotersAfter(b, obj) ==
    {u \in Users : PairCountAfter(b, obj, u, {"down"}) > 0}

(* C31: a vote of the question's author on another user's answer is an     *)
(* ordinary vote in every world: it reports the kind of the transition     *)
(* table, the vote is recorded, the answer's score is the number of its    *)
(* upvoters minus the number of its downvoters with this vote counted,     *)
(* and the answer's author, not the voter, gets the reputation delta.      *)
C31_RelatedAuthorVotes ==
    [][QuestionAuthorVotesOnAnswer =>
          \A b \in Backends :
              /\ RecordedAndCredited(b)
              /\ ScoreRead(b, Answer3)' =
                    Cardinality(UpvotersAfter(b, Answer3))
                    - Cardinality(DownvotersAfter(b, Answer3))]_vars

(* The same without the score, in the three worlds (this holds). *)
C31_RecordedAndCredited ==
    [][QuestionAuthorVotesOnAnswer =>
          \A b \in Backends : RecordedAndCredited(b)]_vars

(* The whole of C31 in the two persistent worlds (this holds). *)
C31_DbWorlds ==
    [][QuestionAuthorVotesOnAnswer =>
          \A b \in DbBackends :
              /\ RecordedAndCredited(b)
              /\ ScoreRead(b, Answer3)' =
                    Cardinality(UpvotersAfter(b, Answer3))
                    - Cardinality(DownvotersAfter(b, Answer3))]_vars

-----------------------------------------------------------------------------
(* The kind obj.vote(user, P) would report in world b in this state, and   *)
(* the polarity the pair would hold afterwards                             *)
WouldVote(b, obj, user, P) ==
    LET out == VoteableVote(b, obj, user, P)
        db == [x \in DbBackends |-> out.store]
        mem == [memVotes EXCEPT ![obj] = out.store]
    IN  [result |-> out.result,
         held |-> IF PairCountIn(db, mem, b, obj, user, {"up"}) > 0 THEN "up"
                  ELSE IF PairCountIn(db, mem, b, obj, user, {"down"}) > 0
                  THEN "down" ELSE None]

(* Every pair holds no vote *)
AllNoVote ==
    \A b \in Backends, obj \in Targets, user \in Users :
        Held(b, obj, user) = None

(* For every pair of a target and a non-author, in every world: a vote of  *)
(* either polarity is accepted and moves the pair as the state machine     *)
(* says, and every other state of the pair is one call away                *)
NoTerminalState ==
    \A b \in Backends, obj \in Targets :
      \A user \in Users \ {obj.author} :
        LET held == Held(b, obj, user)
        IN  /\ \A P \in VoteTypes :
                  /\ WouldVote(b, obj, user, P).result \in Transitions
                  /\ WouldVote(b, obj, user, P).held =
                        IF held = P THEN None ELSE P
            /\ \A t \in AnyType \ {held} :
                  \E P \in VoteTypes : WouldVote(b, obj, user, P).held = t

(* Two calls in a row took the pair from no vote to a vote and back, and   *)
(* the author's stored reputation is what it was before the two calls      *)
CycleRestoresReputation ==
    \A obj \in Targets, user \in Users, P \in VoteTypes, b \in Backends :
        (TwoCalls(obj, user, P, P) /\ last.pre.user_vote[b] = None
         /\ last.result[b] = "added" /\ last'.result[b] = "removed")
        => reputation'[b][obj.author] = last.pre.reputation[b]

(* C32: every pair starts without a vote; in every reachable state a vote  *)
(* of either polarity by an authenticated non-author is accepted and moves *)
(* the pair as the state machine says, so each of the three states is at   *)
(* most two calls (in fact one call) from each other; and when a pair goes *)
(* from no vote to a vote and back, the author's stored reputation is back *)
(* at its value from before.                                               *)
C32_PairMachine ==
    /\ AllNoVote
    /\ []NoTerminalState
    /\ [][CycleRestoresReputation]_vars

(* The shape of the machine alone (this holds). *)
C32_MachineShape == AllNoVote /\ []NoTerminalState

-----------------------------------------------------------------------------
(* C33: when the write of a vote call reports removed or updated, the      *)
(* old_vote_type the call hands to the calculator is the polarity the      *)
(* table held for the pair just before the write, also when another call   *)
(* of the same user on the same target runs in between (this is what the   *)
(* claim's statement about the balance rests on).                          *)
C33_OldPolarityAgrees ==
    [][\A p \in Procs :
          (calls.procs[p].pc = "write" /\ calls'.procs[p].pc # "write"
           /\ calls'.procs[p].result \in {"removed", "updated"}) =>
              calls.procs[p].old_vote_type =
                  Held("django", calls.procs[p].obj, calls.procs[p].user)]_vars

-----------------------------------------------------------------------------
(* The vote call of the step left the record of its pair as it was, in     *)
(* world b                                                                 *)
PairUntouched(b) ==
    \A VT \in {{"up"}, {"down"}} :
        PairCountIn(dbVotes', memVotes', b, last'.obj, last'.user, VT)
            = PairCount(b, last'.obj, last'.user, VT)

(* C34: a vote call of an authenticated user that does not end with        *)
(* added, updated or removed (a rejected call or one that raised) leaves   *)
(* the record of its pair and every stored reputation as they were before  *)
(* the call, in each world;                                                *)
(* and a call that ends with added, updated or removed has changed the     *)
(* record of its pair.                                                     *)
C34_AllOrNothing ==
    [][(last'.op = "vote" /\ IsAuthenticated(last'.user)) =>
          \A b \in Backends :
              IF last'.result[b] \in Transitions
              THEN ~PairUntouched(b)
              ELSE PairUntouched(b) /\ reputation'[b] = reputation[b]]_vars

-----------------------------------------------------------------------------
(* AcceptSpec: forum/views.py accept_answer, two requests at a time. Each  *)
(* statement of the view that touches the database is a step.              *)

IdleRequest == [pc |-> "idle", user |-> None, method |-> "POST", pk |-> 1,
                response |-> [status |-> 0]]

AcceptInit ==
    /\ calls = [p \in Procs |-> IdleRequest]
    /\ calc = NoCalc
    /\ dbVotes = [b \in DbBackends |-> EmptyBag]
    /\ memVotes = [t \in Targets |-> << >>]
    /\ cache = << >>
    /\ reputation = [b \in Backends |-> [u \in Users |-> 0]]
    /\ profile = [b \in Backends |->
                    [t \in Targets |-> [loaded |-> FALSE, reputation_points |-> 0]]]
    /\ last = NoCall
    /\ answers = NoneAccepted

(* A check that lets every logged-in user pass (the variant C36 is checked *)
(* against)                                                                *)
MayAccept_Anyone(user, pk) == TRUE

(* not (request.user != answer.question.author) *)
MayAccept(user, pk) == user = QuestionAuthor[AnswerRows[pk].question]

(* The view up to its first write: require_POST, login_required,           *)
(* get_object_or_404(Answer, pk=pk) and the check of the question's        *)
(* author. The position the request is at afterwards, and the response     *)
(* when it has ended.                                                      *)
AcceptEntry(user, method, pk) ==
    IF method # "POST"
    THEN [pc |-> "done", response |-> [status |-> 405]]
    ELSE IF ~IsAuthenticated(user)
    THEN [pc |-> "done", response |-> [status |-> 302, location |-> "users:login"]]
    ELSE IF pk \notin DOMAIN AnswerRows
    THEN [pc |-> "done", response |-> [status |-> 404]]
    ELSE IF ~MayAccept(user, pk)
    THEN [pc |-> "done",
          response |-> [status |-> 403,
                        error |-> "Only question author can accept answers"]]
    ELSE [pc |-> "update", response |-> [status |-> 0]]

AcceptBegin(p, user, method, pk) ==
    /\ calls[p].pc \in {"idle", "done"}
    /\ \E entry \in {AcceptEntry(user, method, pk)} :
          calls' = [calls EXCEPT ![p] =
                       [pc |-> entry.pc, user |-> user, method |-> method,
                        pk |-> pk, response |-> entry.response]]
    /\ UNCHANGED <<answers, dbVotes, memVotes, cache, reputation, profile,
                   last, calc>>

(* Answer.objects.filter(question=answer.question,                         *)
(*                       is_accepted=True).update(is_accepted=False)       *)
AcceptUpdate(p) ==
    /\ calls[p].pc = "update"
    /\ answers' = [pk \in DOMAIN AnswerRows |->
                      IF AnswerRows[pk].question = AnswerRows[calls[p].pk].question
                      THEN FALSE ELSE answers[pk]]
    /\ calls' = [calls EXCEPT ![p].pc = "mark"]
    /\ UNCHANGED <<dbVotes, memVotes, cache, reputation, profile, last, calc>>

(* answer.mark_accepted(), then JsonResponse({"success": True}) *)
AcceptMark(p) ==
    /\ calls[p].pc = "mark"
    /\ answers' = [answers EXCEPT ![calls[p].pk] = TRUE]
    /\ calls' = [calls EXCEPT ![p].pc = "done",
                    ![p].response = [status |-> 200, success |-> TRUE]]
    /\ UNCHANGED <<dbVotes, memVotes, cache, reputation, profile, last, calc>>

AcceptNext ==
    \/ \E p \in Procs, user \in Users \cup {AnonymousUser}, method \in Methods,
          pk \in DOMAIN AnswerRows \cup {NonexistentId} :
          AcceptBegin(p, user, method, pk)
    \/ \E p \in Procs : AcceptUpdate(p)
    \/ \E p \in Procs : AcceptMark(p)

AcceptSpec == AcceptInit /\ [][AcceptNext]_vars

(* The accepted answers of a question *)
AcceptedOf(q) ==
    {pk \in DOMAIN AnswerRows : AnswerRows[pk].question = q /\ answers[pk]}

(* C35: in every reachable state, whatever the interleaving of the         *)
(* requests, every question has at most one accepted answer; and when a    *)
(* request has answered success and no request is between its two writes,  *)
(* the answer it named is accepted.                                        *)
C35_AtMostOneAccepted ==
    /\ \A q \in DOMAIN QuestionAuthor : Cardinality(AcceptedOf(q)) <= 1
    /\ \A p \in Procs :
          (calls[p].pc = "done" /\ calls[p].response.status = 200
           /\ \A o \in Procs \ {p} : calls[o].pc \in {"idle", "done"}
                                      /\ calls[o].response.status # 200)
          => answers[calls[p].pk]

(* The first part of C35 while only one request has ever been made at a    *)
(* time (this holds).                                                      *)
C35_OneRequestAtATime ==
    (\E p \in Procs : calls[p].pc = "idle") =>
        /\ \A q \in DOMAIN QuestionAuthor : Cardinality(AcceptedOf(q)) <= 1
        /\ \A p \in Procs :
              (calls[p].pc = "done" /\ calls[p].response.status = 200)
              => AcceptedOf(AnswerRows[calls[p].pk].question) = {calls[p].pk}

(* The step begins a POST request of a logged-in user who is not the       *)
(* author of the question of the answer it names                           *)
BeginsAsStranger(p) ==
    /\ calls[p].pc \in {"idle", "done"}
    /\ calls'[p].pc # "idle" /\ calls'[p] # calls[p]
    /\ calls'[p].method = "POST" /\ IsAuthenticated(calls'[p].user)
    /\ calls'[p].pk \in DOMAIN AnswerRows
    /\ calls'[p].user # QuestionAuthor[AnswerRows[calls'[p].pk].question]

(* C36: a request of a logged-in user who is not the author of the         *)
(* answer's question ends at once with 403 "Only question author can       *)
(* accept answers" and changes no is_accepted; and every change of an      *)
(* is_accepted is a write of a request made by the author of the question  *)
(* of the answer named.                                                    *)
C36_AcceptAuthorization ==
    [][/\ \A p \in Procs :
             BeginsAsStranger(p) =>
                /\ calls'[p].pc = "done"
                /\ calls'[p].response =
                      [status |-> 403,
                       error |-> "Only question author can accept answers"]
                /\ answers' = answers
       /\ answers' # answers =>
             \E p \in Procs :
                /\ calls[p].pc \in {"update", "mark"}
                /\ calls[p].user = QuestionAuthor[AnswerRows[calls[p].pk].question]
                /\ \A pk \in DOMAIN AnswerRows :
                      answers'[pk] # answers[pk] =>
                          AnswerRows[pk].question = AnswerRows[calls[p].pk].question
      ]_vars

(* A stranger's request was refused while answer 1 was accepted, and it    *)
(* still is                                                                *)
C36_Witness ==
    /\ answers[1]
    /\ \E p \in Procs :
          /\ calls[p].pc = "done" /\ calls[p].response.status = 403
          /\ calls[p].pk = 1 /\ calls[p].user = "u3"

-----------------------------------------------------------------------------
(* MemorySpec: two MemoryVoteRepository objects in one process (every      *)
(* VoteableMixin instance creates its own) and the class method reset().   *)
(* Here memVotes holds the lists of the class: the class attribute         *)
(* _shared_votes and self.votes of each repository object.                 *)

Repositories == {"r1", "r2"}

SharedVotes == "_shared_votes"

MemoryInit ==
    /\ calls = NoCalls
    /\ calc = NoCalc
    /\ dbVotes = [b \in DbBackends |-> EmptyBag]
    /\ memVotes = [k \in Repositories \cup {SharedVotes} |-> << >>]
    /\ cache = << >>
    /\ reputation = [b \in Backends |-> [u \in Users |-> 0]]
    /\ profile = [b \in Backends |->
                    [t \in Targets |-> [loaded |-> FALSE, reputation_points |-> 0]]]
    /\ last = NoCall
    /\ answers = NoneAccepted

(* repository.vote(obj, user, vote_type) on the repository object r *)
MemoryRepositoryVote(r, obj, user, vote_type) ==
    LET out == MemoryVote(memVotes[r], obj, user, vote_type)
    IN  /\ memVotes' = [memVotes EXCEPT ![r] = out.votes]
        /\ last' = [op |-> "memory.vote", repository |-> r, obj |-> obj,
                    user |-> user, vote_type |-> vote_type,
                    result |-> out.result]
        /\ UNCHANGED <<answers, dbVotes, cache, reputation, profile, calls, calc>>

(* MemoryVoteRepository.reset(): cls._shared_votes.clear() *)
MemoryResetLists(lists) == [lists EXCEPT ![SharedVotes] = << >>]

MemoryReset ==
    /\ memVotes' = MemoryResetLists(memVotes)
    /\ last' = [op |-> "reset"]
    /\ UNCHANGED <<answers, dbVotes, cache, reputation, profile, calls, calc>>

MemoryNext ==
    \/ \E r \in Repositories, obj \in Targets, user \in Voters,
          vote_type \in VoteTypes :
          MemoryRepositoryVote(r, obj, user, vote_type)
    \/ MemoryReset

MemorySpec == MemoryInit /\ [][MemoryNext]_vars

(* What is read of (obj, user) through the repository object r *)
MemoryRead(r, obj, user) ==
    [votes |-> MemoryGetVotesForObject(memVotes[r], obj),
     user_vote |-> MemoryGetUserVote(memVotes[r], obj, user)]

(* C37: in every reachable state the two repository objects give the same  *)
(* reads for every target and user (a vote recorded through one is seen    *)
(* through the other), and in the state that reset() leaves every read     *)
(* through every repository object is empty: no votes for any target, no   *)
(* vote of any user.                                                       *)
C37_SharedResettable ==
    /\ \A obj \in Targets, user \in Users :
          MemoryRead("r1", obj, user) = MemoryRead("r2", obj, user)
    /\ last.op = "reset" =>
          \A r \in Repositories, obj \in Targets, user \in Users :
              MemoryRead(r, obj, user) = [votes |-> << >>, user_vote |-> None]

(* The first part of C37 alone *)
C37_VisibleThroughOthers ==
    \A obj \in Targets, user \in Users :
        MemoryRead("r1", obj, user) = MemoryRead("r2", obj, user)

(* The second part of C37 alone *)
C37_ResetEmpties ==
    last.op = "reset" =>
        \A r \in Repositories, obj \in Targets, user \in Users :
            MemoryRead(r, obj, user) = [votes |-> << >>, user_vote |-> None]

-----------------------------------------------------------------------------
(* The two definitions of get_vote_count and VoteManager.get_stats *)

(* BaseVoteQuery.get_vote_count of core/base.py on the votes of an object: *)
(* len(get_upvotes) - len(get_downvotes); get_vote_count above is the one  *)
(* of core/repositories.py, len(votes).                                    *)
BaseVoteQueryGetVoteCount(votes) ==
    LET upvotes == Len(get_upvotes(votes))
        downvotes == Len(get_downvotes(votes))
    IN  upvotes - downvotes

(* VoteManager(repository of world b).get_stats(obj) *)
GetStats(b, obj) ==
    [total |-> Len(RepoGetVotesForObject(b, obj).value),
     count |-> get_vote_count(RepoGetVotesForObject(b, obj).value),
     score |-> get_vote_score(RepoGetVotesForObject(b, obj).value)]

(* The number of votes of polarity vote_type among votes, by what each     *)
(* record stores                                                           *)
StoredCount(votes, vote_type) ==
    Len(SelectSeq(votes, LAMBDA v : v.vote_type = vote_type))

(* C38: for the votes of every target in every world the get_vote_count of *)
(* core/base.py and the one of core/repositories.py return the same value, *)
(* and get_stats reports 'total' equal to 'count' and 'score' equal to the *)
(* number of up votes minus the number of down votes.                      *)
C38_CountConsistent ==
    \A b \in Backends, obj \in Targets :
        LET votes == RepoGetVotesForObject(b, obj).value
            stats == GetStats(b, obj)
        IN  /\ BaseVoteQueryGetVoteCount(votes) = get_vote_count(votes)
            /\ stats.total = stats.count
            /\ stats.score = StoredCount(votes, "up") - StoredCount(votes, "down")

(* The first part of C38 alone: the two definitions agree *)
C38_DefinitionsAgree ==
    \A b \in Backends, obj \in Targets :
        LET votes == RepoGetVotesForObject(b, obj).value
        IN  BaseVoteQueryGetVoteCount(votes) = get_vote_count(votes)

(* The first part of C38 in the two database worlds only, where every vote *)
(* is a Vote instance                                                      *)
C38_DefinitionsAgreeDb ==
    \A b \in DbBackends, obj \in Targets :
        LET votes == RepoGetVotesForObject(b, obj).value
        IN  BaseVoteQueryGetVoteCount(votes) = get_vote_count(votes)

(* The second part of C38 holds in the two database worlds, and the        *)
(* equality of 'total' and 'count' in the in-memory world too              *)
C38_StatsEntries ==
    \A b \in Backends, obj \in Targets :
        LET votes == RepoGetVotesForObject(b, obj).value
            stats == GetStats(b, obj)
        IN  /\ stats.total = stats.count
            /\ b \in DbBackends =>
                  stats.score = StoredCount(votes, "up") - StoredCount(votes, "down")

(* The second part of C38 in every world *)
C38_StatsEntriesEverywhere ==
    \A b \in Backends, obj \in Targets :
        LET votes == RepoGetVotesForObject(b, obj).value
            stats == GetStats(b, obj)
        IN  /\ stats.total = stats.count
            /\ stats.score = StoredCount(votes, "up") - StoredCount(votes, "down")

=============================================================================
